---- MODULE Spec2Model ----
(***************************************************************************)
(* Model of the networked, multithreaded Tic-Tac-Toe of MA1TurnBased.      *)
(*                                                                         *)
(* Two endpoints run the same program: the "server" (host, mark X) and the *)
(* "client" (participant, mark O).  Each endpoint has a render thread      *)
(* (handleMouseClick, handleKeyPress, AppIterate), a logic thread          *)
(* (Game::logicThreadFunc) and a network thread (Game::networkThreadFunc). *)
(* A step of the model is one command handled by the logic thread, one     *)
(* tick of the network thread that runs one callback and/or receives one   *)
(* message, or one input handled by the render thread.  The client's       *)
(* network thread writes the board with no lock against the logic thread:  *)
(* its GAME_STATE branch is a step per board write.                        *)
(***************************************************************************)
EXTENDS Integers, Sequences, FiniteSets, TLC

VARIABLES
    board,               \* [endpoint -> tiles]      Board::tiles, tiles[y][x]
    localCurrentPlayer,  \* [endpoint -> mark]       logic thread's local
    localResult,         \* [endpoint -> result]     logic thread's local
    commandInputQueue,   \* [endpoint -> Seq(Command)]
    cmd,                 \* [endpoint -> Command]   logic thread's local: the
                         \* command it dequeued last
    currentRenderState,  \* [endpoint -> snapshot]
    gameStateQueue,      \* [endpoint -> Seq(snapshot)]
    net,                 \* [endpoint -> Seq(packet)] sent to it, not yet received
    pendingCallbacks,    \* [endpoint -> Seq(state)]  connection status callbacks not yet run
    clients,             \* GameServer::clients (the roster), a set of handles
    connected,           \* GameClient::connected
    previousClientCount, \* server network thread's local
    syncThreads,         \* detached delayed-sync threads still sleeping
    applying,            \* client network thread inside its GAME_STATE branch:
                         \* <<>> or <<the packet's fields and the loop's idx>>
    m_eState,            \* [handle -> state] the sockets library's state of each
                         \* connection to the server's listen socket
    statusChanged,       \* Seq([m_hConn, m_eState]) status changes whose server
                         \* callback has not run yet, handle by handle (SpecRoster)
    running,             \* [endpoint -> BOOLEAN]   Game::running, the stop flag
    gameState,           \* [endpoint -> "MAIN_MENU" | "IN_GAME"]
    logicThread,         \* [endpoint -> "none" | "running" | "exited"]; a thread is
    networkThread,       \* joinable unless "none"
    allocated,           \* [endpoint -> BOOLEAN]   board and gameServer / gameClient exist
    mainThread,          \* what the participant's main thread is in: "iterate"
                         \* (AppIterate), "startGame" or "stopGame"
    terminated,          \* std::terminate has ended the participant's process
    gameClientRunning,   \* GameClient::running
    wasConnected,        \* client network thread's local
    hasShownDisconnect,  \* [endpoint -> BOOLEAN]   network thread's local
    clientDisconnected,  \* Game::clientDisconnected (host)
    messageQueue,        \* [endpoint -> Seq(text)] what addMessage was given about
                         \* connections
    sent,                \* the handles on which the host has sent a GAME_STATE
                         \* packet
    timeouts,            \* Seq([session, pc]) the participant's detached timeout
                         \* threads, each with the session it was started in
    stopGames,           \* Seq([by, session, pc]) the calls of Game::stopGame on the
                         \* participant, with the thread that made each
    session,             \* the number of the participant's session: the calls of
                         \* startGame that went through
    inputsLeft,          \* [endpoint -> Nat] inputs the model still lets a player give
    resetsLeft,          \* resets the model still lets the players give
    wire,                \* [endpoint -> Seq(text)] messages the sockets library
                         \* holds for it, not yet received (SpecWire)
    incomingPackets,     \* [endpoint -> Seq(NetworkPacket)] GameServer:: and
                         \* GameClient::incomingPackets (SpecWire)
    uncaught,            \* [endpoint -> BOOLEAN] an exception has left the network
                         \* thread's function: std::terminate (SpecWire)
    copying,             \* [endpoint -> [thread -> Seq(snapshot)]] the snapshot a
                         \* thread is assigning to currentRenderState (SpecHandOff)
    producer             \* [endpoint -> Seq(thread)] the thread that enqueued each
                         \* snapshot of gameStateQueue (SpecHandOff)

vars == <<board, localCurrentPlayer, localResult, commandInputQueue, cmd,
          currentRenderState, gameStateQueue, net, pendingCallbacks, clients,
          connected, previousClientCount, syncThreads, applying, m_eState,
          statusChanged, running, gameState, logicThread, networkThread, allocated,
          mainThread, terminated, gameClientRunning, wasConnected, hasShownDisconnect, clientDisconnected,
          messageQueue, sent, timeouts, stopGames, session, inputsLeft, resetsLeft,
          wire, incomingPackets, uncaught, copying, producer>>

engineVars == <<board, localCurrentPlayer, localResult>>
renderVars == <<currentRenderState, gameStateQueue>>
socketVars == <<m_eState, statusChanged>>
threadVars == <<running, gameState, logicThread, networkThread, allocated,
                mainThread, terminated>>
trackVars == <<wasConnected, hasShownDisconnect, clientDisconnected, messageQueue>>
sessionVars == <<threadVars, gameClientRunning, trackVars, sent, timeouts, stopGames,
                 session>>
linkVars == <<pendingCallbacks, clients, connected, previousClientCount, syncThreads,
              applying, socketVars, sessionVars>>
boundVars == <<inputsLeft, resetsLeft>>
wireVars == <<wire, incomingPackets, uncaught>>
handOffVars == <<copying, producer>>

-----------------------------------------------------------------------------
(* Bounds of the model *)

\* inputs (clicks and resets) each player gives
MaxInputs == 2
\* resets the two players give together
MaxResets == 1
\* clicks each player gives in SpecSync
MaxClicks == 1
\* commands handed to the one logic thread under test in SpecEngine
MaxCmds == 4
\* the tiles those commands name: those of index y * SIZE + x below MaxEngineCell
MaxEngineCell == 4
\* the tiles a player clicks: those of index y * SIZE + x below MaxCell
MaxCell == 5
\* snapshots the render thread lets pile up before its next frame
MaxSnapshots == 1
\* the tiles a player clicks in SpecHandOff: those of index below MaxHandOffCell
MaxHandOffCell == 2
\* connections that are ever opened to the server's listen socket
MaxConns == 3
\* menu choices "Join" of the participant's user, one startGame each
MaxStarts == 2

-----------------------------------------------------------------------------
(* Board.h: enum TileState, enum GameResult, Board::SIZE *)

EMPTY == 0
X == 1
O == 2

IN_PROGRESS == 0
X_WINS == 1
O_WINS == 2
DRAW == 3

SIZE == 3

Idx == 0..(SIZE - 1)
Marks == {X, O}

Endpoints == {"server", "client"}

isServer(e) == e = "server"

Peer(e) == IF e = "server" THEN "client" ELSE "server"

\* mutant: both endpoints play X
myMarkAlwaysX(e) == X

\* Game::startGame: myMark = isServer ? X : O
myMark(e) == IF isServer(e) THEN X ELSE O

\* the handle of the participant's connection in the host's roster
hConn == 1

\* the handles of the connections that are ever opened
Conns == 1..MaxConns

-----------------------------------------------------------------------------
(* Board *)

\* Board::resetBoard: every tile EMPTY
resetBoard == [y \in Idx |-> [x \in Idx |-> EMPTY]]

isValidPosition(x, y) == x >= 0 /\ x < SIZE /\ y >= 0 /\ y < SIZE

\* mutant: the occupied check is missing
setTileReturnsNoOccupiedCheck(tiles, x, y) == isValidPosition(x, y)

\* the value Board::setTile returns
setTileReturns(tiles, x, y) ==
    /\ isValidPosition(x, y)
    /\ tiles[y][x] = EMPTY

\* the tiles Board::setTile leaves
setTile(tiles, x, y, mark) ==
    IF setTileReturns(tiles, x, y)
    THEN [tiles EXCEPT ![y][x] = mark]
    ELSE tiles

\* Board::getTile as written: EMPTY for every valid position, the array read
\* otherwise (handleMouseClick only calls it with a valid position)
getTile(tiles, x, y) ==
    IF isValidPosition(x, y) THEN EMPTY ELSE tiles[y][x]

isFull(tiles) == \A y \in Idx : \A x \in Idx : tiles[y][x] # EMPTY

rowComplete(tiles, y) ==
    /\ tiles[y][0] # EMPTY
    /\ tiles[y][0] = tiles[y][1]
    /\ tiles[y][1] = tiles[y][2]

columnComplete(tiles, x) ==
    /\ tiles[0][x] # EMPTY
    /\ tiles[0][x] = tiles[1][x]
    /\ tiles[1][x] = tiles[2][x]

diagonalComplete(tiles) ==
    /\ tiles[0][0] # EMPTY
    /\ tiles[0][0] = tiles[1][1]
    /\ tiles[1][1] = tiles[2][2]

antiDiagonalComplete(tiles) ==
    /\ tiles[0][2] # EMPTY
    /\ tiles[0][2] = tiles[1][1]
    /\ tiles[1][1] = tiles[2][0]

winnerOf(mark) == IF mark = X THEN X_WINS ELSE O_WINS

firstOf(S) == CHOOSE i \in S : \A j \in S : i <= j

\* mutant: the second diagonal is not scanned
checkWinnerNoAntiDiagonal(tiles) ==
    LET rows == {y \in Idx : rowComplete(tiles, y)}
        cols == {x \in Idx : columnComplete(tiles, x)}
    IN  IF rows # {} THEN winnerOf(tiles[firstOf(rows)][0])
        ELSE IF cols # {} THEN winnerOf(tiles[0][firstOf(cols)])
        ELSE IF diagonalComplete(tiles) THEN winnerOf(tiles[0][0])
        ELSE IF isFull(tiles) THEN DRAW
        ELSE IN_PROGRESS

\* Board::checkWinner: rows top down, columns left to right, the two
\* diagonals, then the draw
checkWinner(tiles) ==
    LET rows == {y \in Idx : rowComplete(tiles, y)}
        cols == {x \in Idx : columnComplete(tiles, x)}
    IN  IF rows # {} THEN winnerOf(tiles[firstOf(rows)][0])
        ELSE IF cols # {} THEN winnerOf(tiles[0][firstOf(cols)])
        ELSE IF diagonalComplete(tiles) THEN winnerOf(tiles[0][0])
        ELSE IF antiDiagonalComplete(tiles) THEN winnerOf(tiles[0][2])
        ELSE IF isFull(tiles) THEN DRAW
        ELSE IN_PROGRESS

-----------------------------------------------------------------------------
(* Commands, packets, snapshots *)

\* struct Command.  The fields a command type does not use are left
\* unset by the code and never read by its handler; they are 0 here.
Cmd(type, x, y, mark, fromNetwork) ==
    [type |-> type, x |-> x, y |-> y, mark |-> mark, fromNetwork |-> fromNetwork]

PlaceMarkCmd(x, y, mark) == Cmd("PLACE_MARK", x, y, mark, FALSE)
NetworkMoveCmd(x, y, mark) == Cmd("NETWORK_MOVE", x, y, mark, FALSE)
ResetGameCmd(fromNetwork) == Cmd("RESET_GAME", 0, 0, EMPTY, fromNetwork)
NetworkResetCmd == Cmd("NETWORK_RESET", 0, 0, EMPTY, FALSE)
SyncStateRequestCmd == Cmd("SYNC_STATE_REQUEST", 0, 0, EMPTY, FALSE)
SyncStateReceivedCmd(mark) == Cmd("SYNC_STATE_RECEIVED", 0, 0, mark, FALSE)

\* NetworkPacket: the type and the fields of data that the type carries
\* ("x","y","mark" or "board","currentPlayer","result"); the others are 0 here.
Pkt(type, x, y, mark, boardData, currentPlayer, result) ==
    [type |-> type, x |-> x, y |-> y, mark |-> mark,
     board |-> boardData, currentPlayer |-> currentPlayer, result |-> result]

PlayerMovePkt(x, y, mark) == Pkt("PLAYER_MOVE", x, y, mark, <<>>, 0, 0)
GameResetPkt == Pkt("GAME_RESET", 0, 0, 0, <<>>, 0, 0)

\* mutant: the cells are pushed column by column
boardDataOfColumnMajor(tiles) ==
    [i \in 1..(SIZE * SIZE) |-> tiles[(i - 1) % SIZE][(i - 1) \div SIZE]]

\* SYNC_STATE_REQUEST: for y, for x: boardData.push_back(cells[y][x])
boardDataOf(tiles) == [i \in 1..(SIZE * SIZE) |-> tiles[(i - 1) \div SIZE][(i - 1) % SIZE]]

GameStatePkt(tiles, currentPlayer, result) ==
    Pkt("GAME_STATE", 0, 0, 0, boardDataOf(tiles), currentPlayer, result)

\* GAME_STATE on the client: the loop sets a tile for every
\* idx < boardData.size() whose state is not EMPTY
setsTile(boardData, idx) == idx < Len(boardData) /\ boardData[idx + 1] # EMPTY

\* the first idx from `from` on at which the loop sets a tile, SIZE * SIZE
\* when the loop ends without setting another
nextTile(boardData, from) ==
    LET rest == {i \in from..(SIZE * SIZE - 1) : setsTile(boardData, i)}
    IN  IF rest = {} THEN SIZE * SIZE ELSE CHOOSE i \in rest : \A j \in rest : i <= j

\* mutant: isMyTurn is filled as on the host
SnapshotOfHost(tiles, currentPlayer, result, e) ==
    [boardState |-> tiles, currentPlayer |-> currentPlayer, result |-> result,
     isMyTurn |-> (currentPlayer = X)]

\* struct GameStateSnapshot as the handlers fill it
Snapshot(tiles, currentPlayer, result, e) ==
    [boardState |-> tiles, currentPlayer |-> currentPlayer, result |-> result,
     isMyTurn |-> (currentPlayer = myMark(e))]

-----------------------------------------------------------------------------
(* NetworkManager.h: NetworkPacket::serialize and NetworkPacket::deserialize.
   A json value is null, a number, a string, an array of values or an
   object (a function of its keys); a text is the sequence of its tokens,
   a token that is neither punctuation, a numeral nor null being a quoted
   string. *)

null == [kind |-> "null"]
number(n) == [kind |-> "number", value |-> n]
string(s) == [kind |-> "string", value |-> s]
array(items) == [kind |-> "array", items |-> items]
object(members) == [kind |-> "object", members |-> members]

\* the object json::operator[] makes of null, with no key
noMembers == [k \in {} |-> null]

\* the integers the packets carry, as dump() writes them
Numerals == <<"0", "1", "2", "3", "4", "5", "6", "7", "8", "9">>

numeral(n) == Numerals[n + 1]

valueOf(token) == CHOOSE n \in 0..(Len(Numerals) - 1) : Numerals[n + 1] = token

isNumeral(token) == \E i \in DOMAIN Numerals : Numerals[i] = token

Punctuation == {"{", "}", "[", "]", ",", ":"}

\* the keys of the packets in the order of std::map, in which dump() writes
\* the members of an object
KeyOrder == <<"board", "currentPlayer", "data", "mark", "result", "type", "x", "y">>

keysOf(members) == SelectSeq(KeyOrder, LAMBDA k : k \in DOMAIN members)

RECURSIVE dump(_), dumpItems(_), dumpMembers(_, _)

\* json::dump(): no white space, the members of an object sorted by key
dump(v) ==
    IF v.kind = "null" THEN <<"null">>
    ELSE IF v.kind = "number" THEN <<numeral(v.value)>>
    ELSE IF v.kind = "string" THEN <<v.value>>
    ELSE IF v.kind = "array" THEN <<"[">> \o dumpItems(v.items) \o <<"]">>
    ELSE <<"{">> \o dumpMembers(v.members, keysOf(v.members)) \o <<"}">>

dumpItems(items) ==
    IF items = <<>> THEN <<>>
    ELSE IF Len(items) = 1 THEN dump(items[1])
    ELSE dump(items[1]) \o <<",">> \o dumpItems(Tail(items))

dumpMembers(members, keys) ==
    IF keys = <<>> THEN <<>>
    ELSE LET member == <<keys[1], ":">> \o dump(members[keys[1]])
         IN  IF Len(keys) = 1 THEN member
             ELSE member \o <<",">> \o dumpMembers(members, Tail(keys))

\* what the parser returns: whether it has read a value, the value, and
\* the tokens that follow it
parsed(v, rest) == [ok |-> TRUE, value |-> v, rest |-> rest]
parse_error == [ok |-> FALSE, value |-> null, rest |-> <<>>]

RECURSIVE parseValue(_), parseItems(_, _), parseMembers(_, _)

parseValue(text) ==
    IF text = <<>> THEN parse_error
    ELSE LET token == Head(text)
             rest == Tail(text)
         IN  IF token = "null" THEN parsed(null, rest)
             ELSE IF isNumeral(token) THEN parsed(number(valueOf(token)), rest)
             ELSE IF token = "["
             THEN IF rest # <<>> /\ Head(rest) = "]"
                  THEN parsed(array(<<>>), Tail(rest))
                  ELSE parseItems(rest, <<>>)
             ELSE IF token = "{"
             THEN IF rest # <<>> /\ Head(rest) = "}"
                  THEN parsed(object(noMembers), Tail(rest))
                  ELSE parseMembers(rest, noMembers)
             ELSE IF token \in Punctuation THEN parse_error
             ELSE parsed(string(token), rest)

\* the items of an array from the next item on; items: those read so far
parseItems(text, items) ==
    LET item == parseValue(text)
    IN  IF ~item.ok \/ item.rest = <<>> THEN parse_error
        ELSE IF Head(item.rest) = ","
        THEN parseItems(Tail(item.rest), Append(items, item.value))
        ELSE IF Head(item.rest) = "]"
        THEN parsed(array(Append(items, item.value)), Tail(item.rest))
        ELSE parse_error

\* the members of an object from the next key on; a key met again takes
\* the later value
parseMembers(text, members) ==
    IF Len(text) < 3 THEN parse_error
    ELSE IF text[1] \in Punctuation \cup {"null"} \/ isNumeral(text[1]) \/ text[2] # ":"
    THEN parse_error
    ELSE LET member == parseValue(Tail(Tail(text)))
             read == [k \in DOMAIN members \cup {text[1]} |->
                         IF k = text[1] THEN member.value ELSE members[k]]
         IN  IF ~member.ok \/ member.rest = <<>> THEN parse_error
             ELSE IF Head(member.rest) = ","
             THEN parseMembers(Tail(member.rest), read)
             ELSE IF Head(member.rest) = "}"
             THEN parsed(object(read), Tail(member.rest))
             ELSE parse_error

\* json::parse: the whole text is one value
parse(text) ==
    LET read == parseValue(text)
    IN  IF read.ok /\ read.rest = <<>> THEN read ELSE parse_error

\* enum class PacketType in the order of its enumerators; Game.cpp names the
\* second one GAME_STATE
PacketTypes == <<"PLAYER_MOVE", "GAME_STATE", "GAME_RESET", "PLAYER_JOINED", "CHAT_MESSAGE">>

\* static_cast<int>(type)
intOfPacketType(type) == CHOOSE n \in 0..(Len(PacketTypes) - 1) : PacketTypes[n + 1] = type

\* mutant: the enumerators are counted from one
packetTypeOfIntFromOne(n) ==
    IF n \in 1..Len(PacketTypes) THEN PacketTypes[n] ELSE "UNNAMED"

\* static_cast<PacketType>(n): a value that no enumerator names stays a
\* value of the type
packetTypeOfInt(n) ==
    IF n \in 0..(Len(PacketTypes) - 1) THEN PacketTypes[n + 1] ELSE "UNNAMED"

\* struct NetworkPacket
NetworkPacket(type, data) == [type |-> type, data |-> data]

\* NetworkPacket::serialize
serialize(packet) ==
    dump(object([type |-> number(intOfPacketType(packet.type)), data |-> packet.data]))

\* json::operator[](key) followed by get<int>(): whether it returns (it
\* throws json::type_error otherwise).  On null the operator makes an empty
\* object and adds the key with the value null.
hasInt(v, key) ==
    /\ v.kind = "object"
    /\ key \in DOMAIN v.members
    /\ v.members[key].kind = "number"

\* NetworkPacket::deserialize.  exception "none": the packet is returned as
\* read.  "parse_error": caught inside, the packet is returned as it was
\* declared, its type never assigned ("indeterminate") and its data null.
\* "type_error": json::type_error leaves the function.
deserialize(packetStr) ==
    LET read == parse(packetStr)
        packetJson == read.value
    IN  IF ~read.ok
        THEN [exception |-> "parse_error", packet |-> NetworkPacket("indeterminate", null)]
        ELSE IF ~hasInt(packetJson, "type")
        THEN [exception |-> "type_error", packet |-> NetworkPacket("indeterminate", null)]
        ELSE [exception |-> "none",
              packet |-> NetworkPacket(
                  packetTypeOfInt(packetJson.members["type"].value),
                  IF "data" \in DOMAIN packetJson.members
                  THEN packetJson.members["data"]
                  ELSE null)]

\* the NetworkPacket the logic thread builds for a packet of the model
networkPacketOf(pkt) ==
    NetworkPacket(pkt.type,
        IF pkt.type = "PLAYER_MOVE"
        THEN object([x |-> number(pkt.x), y |-> number(pkt.y), mark |-> number(pkt.mark)])
        ELSE IF pkt.type = "GAME_STATE"
        THEN object([board |-> array([i \in DOMAIN pkt.board |-> number(pkt.board[i])]),
                     currentPlayer |-> number(pkt.currentPlayer),
                     result |-> number(pkt.result)])
        ELSE null)

-----------------------------------------------------------------------------
(* Transport *)

\* GameServer::broadcastPacket sends to every handle of the roster;
\* GameClient::sendPacketToServer returns without sending when not connected
sendPacket(e, pkt) ==
    IF isServer(e)
    THEN IF hConn \in clients
         THEN [net EXCEPT !["client"] = Append(@, pkt)]
         ELSE net
    ELSE IF connected
         THEN [net EXCEPT !["server"] = Append(@, pkt)]
         ELSE net

-----------------------------------------------------------------------------
(* Logic thread: Game::logicThreadFunc, one dequeued command per step *)

\* mutant: the turn is not compared with the mark
placeMarkAcceptedNoTurnCheck(e, c) ==
    /\ localResult[e] = IN_PROGRESS
    /\ setTileReturns(board[e], c.x, c.y)

\* mutant: a decided game still takes marks
placeMarkAcceptedNoResultCheck(e, c) ==
    /\ c.mark = localCurrentPlayer[e]
    /\ setTileReturns(board[e], c.x, c.y)

\* the condition of the PLACE_MARK branch
placeMarkAccepted(e, c) ==
    /\ localResult[e] = IN_PROGRESS
    /\ c.mark = localCurrentPlayer[e]
    /\ setTileReturns(board[e], c.x, c.y)

otherPlayer(mark) == IF mark = X THEN O ELSE X

\* mutant: the turn is switched whatever the result
switchTurnAlways(currentPlayer, result) == otherPlayer(currentPlayer)

\* "Switch turn (if game continues)"
switchTurn(currentPlayer, result) ==
    IF result = IN_PROGRESS THEN otherPlayer(currentPlayer) ELSE currentPlayer

\* currentRenderState = snapshot; gameStateQueue.enqueue(snapshot)
pushSnapshot(e, snapshot) ==
    /\ Len(gameStateQueue[e]) < MaxSnapshots
    /\ currentRenderState' = [currentRenderState EXCEPT ![e] = snapshot]
    /\ gameStateQueue' = [gameStateQueue EXCEPT ![e] = Append(@, snapshot)]

dequeued(e, type) ==
    /\ commandInputQueue[e] # <<>>
    /\ Head(commandInputQueue[e]).type = type
    /\ commandInputQueue' = [commandInputQueue EXCEPT ![e] = Tail(@)]
    /\ cmd' = [cmd EXCEPT ![e] = Head(commandInputQueue[e])]

\* the state a move leaves once setTile has returned true
moveApplied(e, c) ==
    LET tiles == setTile(board[e], c.x, c.y, c.mark)
        result == checkWinner(tiles)
        player == switchTurn(localCurrentPlayer[e], result)
    IN  /\ board' = [board EXCEPT ![e] = tiles]
        /\ localResult' = [localResult EXCEPT ![e] = result]
        /\ localCurrentPlayer' = [localCurrentPlayer EXCEPT ![e] = player]
        /\ pushSnapshot(e, Snapshot(tiles, player, result, e))

LogicPlaceMark(e) ==
    /\ dequeued(e, "PLACE_MARK")
    /\ LET c == Head(commandInputQueue[e])
       IN  IF placeMarkAccepted(e, c)
           THEN /\ moveApplied(e, c)
                /\ net' = sendPacket(e, PlayerMovePkt(c.x, c.y, c.mark))
           ELSE UNCHANGED <<engineVars, renderVars, net>>
    /\ UNCHANGED <<linkVars, boundVars, wireVars, handOffVars>>

\* mutant: a network move is applied only when its mark holds the turn
LogicNetworkMoveTurnChecked(e) ==
    /\ dequeued(e, "NETWORK_MOVE")
    /\ LET c == Head(commandInputQueue[e])
       IN  IF c.mark = localCurrentPlayer[e] /\ setTileReturns(board[e], c.x, c.y)
           THEN moveApplied(e, c)
           ELSE UNCHANGED <<engineVars, renderVars>>
    /\ UNCHANGED <<net, linkVars, boundVars, wireVars, handOffVars>>

LogicNetworkMove(e) ==
    /\ dequeued(e, "NETWORK_MOVE")
    /\ LET c == Head(commandInputQueue[e])
       IN  IF setTileReturns(board[e], c.x, c.y)
           THEN moveApplied(e, c)
           ELSE UNCHANGED <<engineVars, renderVars>>
    /\ UNCHANGED <<net, linkVars, boundVars, wireVars, handOffVars>>

\* mutant: a reset leaves the turn mark as it is
resetAppliedKeepsTurn(e) ==
    /\ board' = [board EXCEPT ![e] = resetBoard]
    /\ localResult' = [localResult EXCEPT ![e] = IN_PROGRESS]
    /\ UNCHANGED localCurrentPlayer
    /\ pushSnapshot(e, Snapshot(resetBoard, localCurrentPlayer[e], IN_PROGRESS, e))

\* the state both reset branches leave
resetApplied(e) ==
    /\ board' = [board EXCEPT ![e] = resetBoard]
    /\ localCurrentPlayer' = [localCurrentPlayer EXCEPT ![e] = X]
    /\ localResult' = [localResult EXCEPT ![e] = IN_PROGRESS]
    /\ pushSnapshot(e, Snapshot(resetBoard, X, IN_PROGRESS, e))

\* mutant: the reset packet is sent whatever fromNetwork says
LogicResetGameEchoed(e) ==
    /\ dequeued(e, "RESET_GAME")
    /\ resetApplied(e)
    /\ net' = sendPacket(e, GameResetPkt)
    /\ UNCHANGED <<linkVars, boundVars, wireVars, handOffVars>>

LogicResetGame(e) ==
    /\ dequeued(e, "RESET_GAME")
    /\ resetApplied(e)
    /\ net' = IF ~Head(commandInputQueue[e]).fromNetwork
              THEN sendPacket(e, GameResetPkt)
              ELSE net
    /\ UNCHANGED <<linkVars, boundVars, wireVars, handOffVars>>

LogicNetworkReset(e) ==
    /\ dequeued(e, "NETWORK_RESET")
    /\ resetApplied(e)
    /\ UNCHANGED <<net, linkVars, boundVars, wireVars, handOffVars>>

LogicSyncStateRequest(e) ==
    /\ dequeued(e, "SYNC_STATE_REQUEST")
    /\ net' = IF isServer(e)
              THEN sendPacket(e, GameStatePkt(board[e], localCurrentPlayer[e],
                                              localResult[e]))
              ELSE net
    \* GameServer::broadcastPacket: one SendMessageToConnection per roster entry
    /\ sent' = IF isServer(e) THEN sent \cup clients ELSE sent
    /\ UNCHANGED <<engineVars, renderVars, pendingCallbacks, clients, connected,
                   previousClientCount, syncThreads, applying, socketVars, threadVars,
                   gameClientRunning, trackVars, timeouts, stopGames, session,
                   boundVars, wireVars, handOffVars>>

\* mutant: the turn is worked out from the number of marks on the grid
LogicSyncStateReceivedCounted(e) ==
    /\ dequeued(e, "SYNC_STATE_RECEIVED")
    /\ LET marked(m) == Cardinality({p \in Idx \X Idx : board[e][p[2]][p[1]] = m})
           player == IF marked(X) > marked(O) THEN O ELSE X
           result == checkWinner(board[e])
       IN  /\ localCurrentPlayer' = [localCurrentPlayer EXCEPT ![e] = player]
           /\ localResult' = [localResult EXCEPT ![e] = result]
           /\ pushSnapshot(e, Snapshot(board[e], player, result, e))
    /\ UNCHANGED <<board, net, linkVars, boundVars, wireVars, handOffVars>>

LogicSyncStateReceived(e) ==
    /\ dequeued(e, "SYNC_STATE_RECEIVED")
    /\ LET player == Head(commandInputQueue[e]).mark
           result == checkWinner(board[e])
       IN  /\ localCurrentPlayer' = [localCurrentPlayer EXCEPT ![e] = player]
           /\ localResult' = [localResult EXCEPT ![e] = result]
           /\ pushSnapshot(e, Snapshot(board[e], player, result, e))
    /\ UNCHANGED <<board, net, linkVars, boundVars, wireVars, handOffVars>>

\* the engine of e: the grid and the logic thread's two locals
engineOf(e) ==
    [tiles |-> board[e], currentPlayer |-> localCurrentPlayer[e],
     result |-> localResult[e]]

\* the engine a handled move leaves once setTile has returned true
moved(s, c) ==
    LET tiles == setTile(s.tiles, c.x, c.y, c.mark)
        result == checkWinner(tiles)
    IN  [tiles |-> tiles, currentPlayer |-> switchTurn(s.currentPlayer, result),
         result |-> result]

\* the branches of the logic thread's command dispatch as a function: the
\* engine that handling command c leaves of engine s
handled(s, c) ==
    IF c.type = "PLACE_MARK"
    THEN IF /\ s.result = IN_PROGRESS
            /\ c.mark = s.currentPlayer
            /\ setTileReturns(s.tiles, c.x, c.y)
         THEN moved(s, c)
         ELSE s
    ELSE IF c.type = "NETWORK_MOVE"
    THEN IF setTileReturns(s.tiles, c.x, c.y) THEN moved(s, c) ELSE s
    ELSE IF c.type \in {"RESET_GAME", "NETWORK_RESET"}
    THEN [tiles |-> resetBoard, currentPlayer |-> X, result |-> IN_PROGRESS]
    ELSE IF c.type = "SYNC_STATE_RECEIVED"
    THEN [s EXCEPT !.currentPlayer = c.mark, !.result = checkWinner(s.tiles)]
    ELSE s

-----------------------------------------------------------------------------
(* Network thread: Game::networkThreadFunc.  A tick runs the connection
   status callback that has arrived (RunCallbacks), tracks the client count
   and hands the message that has arrived to the logic thread.  A tick that
   receives several messages is several of these ticks in a row.  A tick
   runs the callbacks before it receives: a message of a connection is not
   received while the connection's status callback is still waiting. *)

\* "Enforce 2-player limit"
MaxClients == 2

enqueueCommand(e, c) ==
    commandInputQueue' = [commandInputQueue EXCEPT ![e] = Append(@, c)]

\* server: the command a received packet is turned into (none for other types)
serverCommands(pkt) ==
    IF pkt.type = "PLAYER_MOVE" THEN <<NetworkMoveCmd(pkt.x, pkt.y, pkt.mark)>>
    ELSE IF pkt.type = "GAME_RESET" THEN <<NetworkResetCmd>>
    ELSE <<>>

addMessage(e, text) == [messageQueue EXCEPT ![e] = Append(@, text)]

\* mutant: a connecting peer does not clear hasShownDisconnect
trackClientsNoRearm(currentClientCount) ==
    LET more == currentClientCount > previousClientCount
        none == /\ currentClientCount < previousClientCount
                /\ previousClientCount > 0 /\ currentClientCount = 0
                /\ ~hasShownDisconnect["server"]
    IN  /\ syncThreads' = IF more THEN syncThreads + 1 ELSE syncThreads
        /\ messageQueue' = IF more THEN addMessage("server", "Player connected!")
                           ELSE IF none THEN addMessage("server", "Player disconnected!")
                           ELSE messageQueue
        /\ clientDisconnected' = IF more THEN FALSE
                                 ELSE IF none THEN TRUE
                                 ELSE clientDisconnected
        /\ hasShownDisconnect' =
              IF none THEN [hasShownDisconnect EXCEPT !["server"] = TRUE]
              ELSE hasShownDisconnect
        /\ previousClientCount' = currentClientCount

\* server, "Track client connections": a delayed SYNC_STATE_REQUEST per increase
\* of the count, the disconnect flag and message when the count falls to zero
trackClients(currentClientCount) ==
    LET more == currentClientCount > previousClientCount
        none == /\ currentClientCount < previousClientCount
                /\ previousClientCount > 0 /\ currentClientCount = 0
                /\ ~hasShownDisconnect["server"]
    IN  /\ syncThreads' = IF more THEN syncThreads + 1 ELSE syncThreads
        /\ messageQueue' = IF more THEN addMessage("server", "Player connected!")
                           ELSE IF none THEN addMessage("server", "Player disconnected!")
                           ELSE messageQueue
        /\ clientDisconnected' = IF more THEN FALSE
                                 ELSE IF none THEN TRUE
                                 ELSE clientDisconnected
        /\ hasShownDisconnect' =
              IF more THEN [hasShownDisconnect EXCEPT !["server"] = FALSE]
              ELSE IF none THEN [hasShownDisconnect EXCEPT !["server"] = TRUE]
              ELSE hasShownDisconnect
        /\ previousClientCount' = currentClientCount

ServerTick(cb, recv) ==
    LET callbacks == pendingCallbacks["server"]
        run == cb /\ callbacks # <<>>
        state == Head(callbacks)
        \* GameServer::onConnectionStatusChanged
        accepted == run /\ state = "Connecting" /\ Cardinality(clients) < MaxClients
        roster == IF run /\ state = "Connected" THEN clients \cup {hConn} ELSE clients
        currentClientCount == Cardinality(roster)
        take == recv /\ net["server"] # <<>>
    IN  /\ run \/ take
        /\ take => (run \/ callbacks = <<>>)
        /\ clients' = roster
        /\ pendingCallbacks' =
              IF ~run THEN pendingCallbacks
              ELSE IF accepted
                   THEN [server |-> Append(Tail(callbacks), "Connected"),
                         client |-> Append(pendingCallbacks["client"], "Connected")]
                   ELSE [pendingCallbacks EXCEPT !["server"] = Tail(callbacks)]
        /\ trackClients(currentClientCount)
        /\ IF take
           THEN /\ net' = [net EXCEPT !["server"] = Tail(@)]
                /\ commandInputQueue' =
                      [commandInputQueue EXCEPT
                          !["server"] = @ \o serverCommands(Head(net["server"]))]
           ELSE UNCHANGED <<net, commandInputQueue>>
        /\ m_eState' = IF accepted
                       THEN [m_eState EXCEPT ![hConn] = "Connected"]
                       ELSE m_eState
        /\ UNCHANGED <<cmd, engineVars, renderVars, connected, applying,
                       statusChanged, threadVars, gameClientRunning, wasConnected,
                       sent, timeouts, stopGames, session, boundVars, wireVars, handOffVars>>

\* the delayed thread of the server's network thread wakes up
SyncTimer ==
    /\ syncThreads > 0
    /\ syncThreads' = syncThreads - 1
    /\ enqueueCommand("server", SyncStateRequestCmd)
    /\ UNCHANGED <<cmd, engineVars, renderVars, net, pendingCallbacks, clients,
                   connected, previousClientCount, applying, socketVars, sessionVars,
                   boundVars, wireVars, handOffVars>>

\* mutant: the board is not reset before the packet's tiles are set
clientGameStateNoReset(pkt) ==
    /\ UNCHANGED board
    /\ applying' = <<[boardData |-> pkt.board, currentPlayer |-> pkt.currentPlayer,
                      result |-> pkt.result, idx |-> nextTile(pkt.board, 0)]>>
    /\ UNCHANGED <<localCurrentPlayer, localResult, renderVars, commandInputQueue>>

\* client, GAME_STATE: the network thread rebuilds the board itself, with
\* no lock against the logic thread.  The packet's receipt resets the
\* board; the loop and the publication follow as steps of their own
\* (ClientSetTile, ClientSynced), between which the other threads run.
clientGameState(pkt) ==
    /\ board' = [board EXCEPT !["client"] = resetBoard]
    /\ applying' = <<[boardData |-> pkt.board, currentPlayer |-> pkt.currentPlayer,
                      result |-> pkt.result, idx |-> nextTile(pkt.board, 0)]>>
    /\ UNCHANGED <<localCurrentPlayer, localResult, renderVars, commandInputQueue>>

\* the loop up to and including its next board->setTile(x, y, state)
ClientSetTile ==
    /\ applying # <<>>
    /\ applying[1].idx < SIZE * SIZE
    /\ LET idx == applying[1].idx
           boardData == applying[1].boardData
       IN  /\ board' = [board EXCEPT !["client"] =
                           setTile(@, idx % SIZE, idx \div SIZE, boardData[idx + 1])]
           /\ applying' = <<[applying[1] EXCEPT !.idx = nextTile(boardData, idx + 1)]>>
    /\ UNCHANGED <<cmd, localCurrentPlayer, localResult, renderVars, commandInputQueue,
                   net, pendingCallbacks, clients, connected, previousClientCount,
                   syncThreads, socketVars, sessionVars, boundVars, wireVars, handOffVars>>

\* "Create snapshot for render thread" and "notify logic thread"
ClientSynced ==
    /\ applying # <<>>
    /\ applying[1].idx = SIZE * SIZE
    /\ LET snapshot == Snapshot(board["client"], applying[1].currentPlayer,
                                applying[1].result, "client")
       IN  /\ pushSnapshot("client", snapshot)
           /\ enqueueCommand("client", SyncStateReceivedCmd(snapshot.currentPlayer))
    /\ applying' = <<>>
    /\ UNCHANGED <<cmd, engineVars, net, pendingCallbacks, clients, connected,
                   previousClientCount, syncThreads, socketVars, sessionVars,
                   boundVars, wireVars, handOffVars>>

\* client, "Track connection state changes": a message when the connection
\* comes up, two messages and a detached timeout thread when it is lost
trackConnection(currentlyConnected) ==
    LET up == currentlyConnected /\ ~wasConnected
        lost == ~currentlyConnected /\ wasConnected /\ ~hasShownDisconnect["client"]
    IN  /\ messageQueue' =
              IF up THEN addMessage("client", "Connected to server!")
              ELSE IF lost
                   THEN [messageQueue EXCEPT
                            !["client"] = @ \o <<"Lost connection!",
                                                 "Returning to menu...">>]
                   ELSE messageQueue
        /\ hasShownDisconnect' =
              IF up THEN [hasShownDisconnect EXCEPT !["client"] = FALSE]
              ELSE IF lost THEN [hasShownDisconnect EXCEPT !["client"] = TRUE]
              ELSE hasShownDisconnect
        /\ timeouts' = IF lost
                       THEN Append(timeouts, [session |-> session, pc |-> "sleep"])
                       ELSE timeouts
        /\ wasConnected' = currentlyConnected

ClientTick(cb, recv) ==
    LET callbacks == pendingCallbacks["client"]
        run == cb /\ callbacks # <<>>
        take == recv /\ net["client"] # <<>>
        pkt == Head(net["client"])
    IN  /\ applying = <<>>
        /\ run \/ take
        /\ take => (run \/ callbacks = <<>>)
        \* GameClient::onConnectionStatusChanged
        /\ connected' = IF run /\ Head(callbacks) = "Connected" THEN TRUE ELSE connected
        /\ pendingCallbacks' = IF run
                               THEN [pendingCallbacks EXCEPT !["client"] = Tail(callbacks)]
                               ELSE pendingCallbacks
        /\ IF take
           THEN /\ net' = [net EXCEPT !["client"] = Tail(@)]
                /\ IF pkt.type = "GAME_STATE"
                   THEN clientGameState(pkt)
                   ELSE /\ enqueueCommand("client",
                              IF pkt.type = "PLAYER_MOVE"
                              THEN NetworkMoveCmd(pkt.x, pkt.y, pkt.mark)
                              ELSE ResetGameCmd(TRUE))
                        /\ UNCHANGED <<engineVars, renderVars, applying>>
           ELSE UNCHANGED <<net, commandInputQueue, engineVars, renderVars, applying>>
        /\ trackConnection(connected')
        /\ UNCHANGED <<cmd, clients, previousClientCount, syncThreads, socketVars,
                       threadVars, gameClientRunning, clientDisconnected, sent,
                       stopGames, session, boundVars, wireVars, handOffVars>>

-----------------------------------------------------------------------------
(* The messages as texts: GameServer:: and GameClient::receiveMessages hand
   each text to processMessage, and the network thread's loop takes the
   packets off incomingPackets.  The connection is up and no status
   callback waits, so the rest of the tick changes nothing. *)

\* json::contains(key)
contains(v, key) == v.kind = "object" /\ key \in DOMAIN v.members

\* get<std::vector<int>>(): whether it returns
isInts(v) == v.kind = "array" /\ \A i \in DOMAIN v.items : v.items[i].kind = "number"

intsOf(v) == [i \in DOMAIN v.items |-> v.items[i].value]

\* the value of a member that get<int>() returns; 0 where it does not return
intOf(v, key) == IF hasInt(v, key) THEN v.members[key].value ELSE 0

\* the values the indeterminate type of a packet may have
AnyPacketType == {PacketTypes[i] : i \in DOMAIN PacketTypes} \cup {"UNNAMED"}

\* std::terminate has not ended the process of e
Alive(e) == ~uncaught[e]

\* processMessage of e on the message that has arrived first
processMessage(e) ==
    /\ Alive(e)
    /\ wire[e] # <<>>
    /\ wire' = [wire EXCEPT ![e] = Tail(@)]
    /\ LET read == deserialize(Head(wire[e]))
       IN  IF read.exception = "type_error"
           \* catch (const std::exception &e)
           THEN UNCHANGED incomingPackets
           ELSE IF read.exception = "parse_error"
           THEN \E type \in AnyPacketType :
                   incomingPackets' = [incomingPackets EXCEPT
                                          ![e] = Append(@, NetworkPacket(type, null))]
           ELSE incomingPackets' = [incomingPackets EXCEPT ![e] = Append(@, read.packet)]
    /\ UNCHANGED <<cmd, engineVars, renderVars, commandInputQueue, net, linkVars,
                   boundVars, uncaught, handOffVars>>

\* json::type_error leaves networkThreadFunc
escapes(e) ==
    /\ uncaught' = [uncaught EXCEPT ![e] = TRUE]
    /\ UNCHANGED <<engineVars, renderVars, commandInputQueue, applying>>

\* the PLAYER_MOVE branch of either network thread
takesPlayerMove(e, data) ==
    IF hasInt(data, "x") /\ hasInt(data, "y") /\ hasInt(data, "mark")
    THEN /\ enqueueCommand(e, NetworkMoveCmd(intOf(data, "x"), intOf(data, "y"),
                                             intOf(data, "mark")))
         /\ UNCHANGED <<engineVars, renderVars, applying, uncaught>>
    ELSE escapes(e)

\* server: "Process incoming packets from clients", one packet
ServerTakesPacket ==
    /\ Alive("server")
    /\ incomingPackets["server"] # <<>>
    /\ incomingPackets' = [incomingPackets EXCEPT !["server"] = Tail(@)]
    /\ LET packet == Head(incomingPackets["server"])
       IN  IF packet.type = "PLAYER_MOVE"
           THEN takesPlayerMove("server", packet.data)
           ELSE IF packet.type = "GAME_RESET"
           THEN /\ enqueueCommand("server", NetworkResetCmd)
                /\ UNCHANGED <<engineVars, renderVars, applying, uncaught>>
           ELSE UNCHANGED <<engineVars, renderVars, commandInputQueue, applying, uncaught>>
    /\ UNCHANGED <<cmd, net, pendingCallbacks, clients, connected, previousClientCount,
                   syncThreads, socketVars, sessionVars, boundVars, wire, handOffVars>>

\* client: "Process incoming packets from server", one packet.  The
\* GAME_STATE branch resets the board here; its loop and what follows the
\* loop are steps of their own (ClientSetTile, ClientPublishes).
ClientTakesPacket ==
    /\ Alive("client")
    /\ applying = <<>>
    /\ incomingPackets["client"] # <<>>
    /\ incomingPackets' = [incomingPackets EXCEPT !["client"] = Tail(@)]
    /\ LET packet == Head(incomingPackets["client"])
           data == packet.data
       IN  IF packet.type = "GAME_STATE"
           THEN IF ~contains(data, "board")
                THEN UNCHANGED <<engineVars, renderVars, commandInputQueue, applying,
                                 uncaught>>
                ELSE IF ~isInts(data.members["board"])
                THEN escapes("client")
                ELSE LET boardData == intsOf(data.members["board"])
                     IN  /\ board' = [board EXCEPT !["client"] = resetBoard]
                         /\ applying' = <<[boardData |-> boardData,
                                           currentPlayer |-> intOf(data, "currentPlayer"),
                                           result |-> intOf(data, "result"),
                                           idx |-> nextTile(boardData, 0),
                                           data |-> data]>>
                         /\ UNCHANGED <<localCurrentPlayer, localResult, renderVars,
                                        commandInputQueue, uncaught>>
           ELSE IF packet.type = "PLAYER_MOVE"
           THEN takesPlayerMove("client", data)
           ELSE IF packet.type = "GAME_RESET"
           THEN /\ enqueueCommand("client", ResetGameCmd(TRUE))
                /\ UNCHANGED <<engineVars, renderVars, applying, uncaught>>
           ELSE UNCHANGED <<engineVars, renderVars, commandInputQueue, applying, uncaught>>
    /\ UNCHANGED <<cmd, net, pendingCallbacks, clients, connected, previousClientCount,
                   syncThreads, socketVars, sessionVars, boundVars, wire, handOffVars>>

\* client, after the loop: "if (packet.data.contains("currentPlayer"))"
ClientPublishes ==
    /\ Alive("client")
    /\ applying # <<>>
    /\ applying[1].idx = SIZE * SIZE
    /\ LET data == applying[1].data
       IN  IF ~contains(data, "currentPlayer")
           THEN /\ applying' = <<>>
                /\ UNCHANGED <<cmd, engineVars, renderVars, commandInputQueue, net,
                               pendingCallbacks, clients, connected, previousClientCount,
                               syncThreads, socketVars, sessionVars, boundVars, wireVars,
                               handOffVars>>
           ELSE IF \/ ~hasInt(data, "currentPlayer")
                   \/ contains(data, "result") /\ ~hasInt(data, "result")
           THEN /\ uncaught' = [uncaught EXCEPT !["client"] = TRUE]
                /\ applying' = <<>>
                /\ UNCHANGED <<cmd, engineVars, renderVars, commandInputQueue, net,
                               pendingCallbacks, clients, connected, previousClientCount,
                               syncThreads, socketVars, sessionVars, boundVars, wire,
                               incomingPackets, handOffVars>>
           ELSE ClientSynced

-----------------------------------------------------------------------------
(* Render thread *)

\* Game::handleMouseClick for a click that screenToGrid maps to (x, y)
handleMouseClick(e, x, y) ==
    /\ inputsLeft[e] > 0
    /\ currentRenderState[e].result = IN_PROGRESS
    /\ currentRenderState[e].isMyTurn
    /\ y * SIZE + x < MaxCell
    /\ isValidPosition(x, y)
    /\ getTile(board[e], x, y) = EMPTY
    /\ enqueueCommand(e, PlaceMarkCmd(x, y, myMark(e)))
    /\ inputsLeft' = [inputsLeft EXCEPT ![e] = @ - 1]
    /\ UNCHANGED <<cmd, engineVars, renderVars, net, linkVars, resetsLeft, wireVars, handOffVars>>

\* Game::handleKeyPress(SDLK_R) and the "Reset Game (R)" button
handleKeyPress(e) ==
    /\ inputsLeft[e] > 0
    /\ resetsLeft > 0
    /\ enqueueCommand(e, ResetGameCmd(FALSE))
    /\ inputsLeft' = [inputsLeft EXCEPT ![e] = @ - 1]
    /\ resetsLeft' = resetsLeft - 1
    /\ UNCHANGED <<cmd, engineVars, renderVars, net, linkVars, wireVars, handOffVars>>

\* Game::AppIterate: "Read latest state from queue"
AppIterate(e) ==
    /\ gameStateQueue[e] # <<>>
    /\ currentRenderState' =
          [currentRenderState EXCEPT ![e] = gameStateQueue[e][Len(gameStateQueue[e])]]
    /\ gameStateQueue' = [gameStateQueue EXCEPT ![e] = <<>>]
    /\ UNCHANGED <<cmd, engineVars, commandInputQueue, net, linkVars, boundVars, wireVars, handOffVars>>

-----------------------------------------------------------------------------
(* The two sessions from Game::startGame on *)

\* Game::startGame: the board, the render state, the thread locals
Fresh ==
    /\ board = [e \in Endpoints |-> resetBoard]
    /\ localCurrentPlayer = [e \in Endpoints |-> X]
    /\ localResult = [e \in Endpoints |-> IN_PROGRESS]
    /\ commandInputQueue = [e \in Endpoints |-> <<>>]
    /\ currentRenderState =
          [e \in Endpoints |->
              [boardState |-> resetBoard, currentPlayer |-> X,
               result |-> IN_PROGRESS, isMyTurn |-> isServer(e)]]
    /\ gameStateQueue = [e \in Endpoints |-> <<>>]

\* "Command cmd;" is written by try_dequeue before any of it is read
NoCmd == Cmd("NONE", 0, 0, EMPTY, FALSE)

\* nothing has been sent and no command handled yet
Started ==
    /\ Fresh
    /\ cmd = [e \in Endpoints |-> NoCmd]
    /\ net = [e \in Endpoints |-> <<>>]

\* the join's delayed sync has gone through on the untouched boards: the
\* host has handled SYNC_STATE_REQUEST, the participant SYNC_STATE_RECEIVED
Synced ==
    /\ Fresh
    /\ cmd = [server |-> SyncStateRequestCmd, client |-> SyncStateReceivedCmd(X)]
    /\ net = [e \in Endpoints |-> <<>>]

\* both sessions are in game: startGame has returned true, the threads run,
\* nothing has been stopped and no timeout thread started; joined: the network
\* threads have seen the connection come up, synced: the host has sent its
\* GAME_STATE packet on it
InGame(joined, synced) ==
    /\ running = [e \in Endpoints |-> TRUE]
    /\ gameState = [e \in Endpoints |-> "IN_GAME"]
    /\ logicThread = [e \in Endpoints |-> "running"]
    /\ networkThread = [e \in Endpoints |-> "running"]
    /\ allocated = [e \in Endpoints |-> TRUE]
    /\ mainThread = "iterate"
    /\ terminated = FALSE
    /\ gameClientRunning = TRUE
    /\ hasShownDisconnect = [e \in Endpoints |-> FALSE]
    /\ clientDisconnected = FALSE
    /\ wasConnected = joined
    /\ messageQueue = [e \in Endpoints |->
                          IF ~joined THEN <<>>
                          ELSE IF isServer(e) THEN <<"Player connected!">>
                          ELSE <<"Connected to server!">>]
    /\ sent = IF synced THEN {hConn} ELSE {}
    /\ timeouts = <<>>
    /\ stopGames = <<>>
    /\ session = 1

\* the client's ConnectByIPAddress has reached the listening server
Connecting ==
    /\ InGame(FALSE, FALSE)
    /\ pendingCallbacks = [server |-> <<"Connecting">>, client |-> <<>>]
    /\ m_eState = [h \in Conns |-> IF h = hConn THEN "Connecting" ELSE "Unused"]
    /\ statusChanged = <<>>
    /\ clients = {}
    /\ connected = FALSE
    /\ previousClientCount = 0
    /\ syncThreads = 0
    /\ applying = <<>>

\* both sides have run their Connected callback and the join's delayed
\* sync has been sent and taken
Established ==
    /\ InGame(TRUE, TRUE)
    /\ pendingCallbacks = [server |-> <<>>, client |-> <<>>]
    /\ m_eState = [h \in Conns |-> IF h = hConn THEN "Connected" ELSE "Unused"]
    /\ statusChanged = <<>>
    /\ clients = {hConn}
    /\ connected = TRUE
    /\ previousClientCount = 1
    /\ syncThreads = 0
    /\ applying = <<>>

\* the threads of an endpoint that touch the render state
Threads == {"main", "logic", "network"}

\* messages are handed over as the packets they carry and snapshots in the
\* order of their enqueue: no text is on the wire, no packet on
\* incomingPackets, no thread in the middle of its assignment
Plain ==
    /\ wire = [e \in Endpoints |-> <<>>]
    /\ incomingPackets = [e \in Endpoints |-> <<>>]
    /\ uncaught = [e \in Endpoints |-> FALSE]
    /\ copying = [e \in Endpoints |-> [t \in Threads |-> <<>>]]
    /\ producer = [e \in Endpoints |-> <<>>]

\* the inputs the model lets the players give
Budget(server, client, resets) ==
    /\ inputsLeft = [e \in Endpoints |-> IF isServer(e) THEN server ELSE client]
    /\ resetsLeft = resets

Init == Started /\ Connecting /\ Plain /\ Budget(MaxInputs, MaxInputs, MaxResets)

Logic(e) ==
    \/ LogicPlaceMark(e)
    \/ LogicNetworkMove(e)
    \/ LogicResetGame(e)
    \/ LogicNetworkReset(e)
    \/ LogicSyncStateRequest(e)
    \/ LogicSyncStateReceived(e)

Next ==
    \/ \E e \in Endpoints : \E x \in Idx : \E y \in Idx : handleMouseClick(e, x, y)
    \/ \E e \in Endpoints : handleKeyPress(e)
    \/ \E e \in Endpoints : AppIterate(e)
    \/ \E e \in Endpoints : LogicPlaceMark(e)
    \/ \E e \in Endpoints : LogicNetworkMove(e)
    \/ \E e \in Endpoints : LogicResetGame(e)
    \/ LogicNetworkReset("server")
    \/ LogicSyncStateRequest("server")
    \/ LogicSyncStateReceived("client")
    \/ \E cb \in BOOLEAN : \E recv \in BOOLEAN : ServerTick(cb, recv)
    \/ \E cb \in BOOLEAN : \E recv \in BOOLEAN : ClientTick(cb, recv)
    \/ ClientSetTile
    \/ ClientSynced
    \/ SyncTimer

Spec == Init /\ [][Next]_vars

-----------------------------------------------------------------------------
(* Play over the established connection: the state of the two sessions
   once the participant has joined and the join's sync has gone through
   with no input given yet *)

InitPlay == Synced /\ Established /\ Plain /\ Budget(MaxInputs, MaxInputs, MaxResets)

NextPlay ==
    \/ \E e \in Endpoints : \E x \in Idx : \E y \in Idx : handleMouseClick(e, x, y)
    \/ \E e \in Endpoints : handleKeyPress(e)
    \/ \E e \in Endpoints : AppIterate(e)
    \/ \E e \in Endpoints : LogicPlaceMark(e)
    \/ \E e \in Endpoints : LogicNetworkMove(e)
    \/ \E e \in Endpoints : LogicResetGame(e)
    \/ LogicNetworkReset("server")
    \/ \E recv \in BOOLEAN : ServerTick(FALSE, recv)
    \/ \E recv \in BOOLEAN : ClientTick(FALSE, recv)

SpecPlay == InitPlay /\ [][NextPlay]_vars

\* the same play with every loop going round in the end: the logic and the
\* network thread poll their queue every 10 ms and block on nothing, and the
\* frame loop drains the snapshot queue every frame
loopsRun ==
    /\ \A e \in Endpoints :
          /\ WF_vars(\/ LogicPlaceMark(e)
                     \/ LogicNetworkMove(e)
                     \/ LogicResetGame(e)
                     \/ LogicNetworkReset(e))
          /\ WF_vars(AppIterate(e))
    /\ WF_vars(ServerTick(FALSE, TRUE))
    /\ WF_vars(ClientTick(FALSE, TRUE))

SpecFairPlay == InitPlay /\ [][NextPlay]_vars /\ loopsRun

-----------------------------------------------------------------------------
(* The join's delayed sync arrives in the middle of a game: both Connected
   callbacks have run and the server's network thread has started the
   delayed thread, which still sleeps, while the players have placed two
   marks each in turn.  Clicks only. *)

Joined ==
    /\ InGame(TRUE, FALSE)
    /\ pendingCallbacks = [server |-> <<>>, client |-> <<>>]
    /\ m_eState = [h \in Conns |-> IF h = hConn THEN "Connected" ELSE "Unused"]
    /\ statusChanged = <<>>
    /\ clients = {hConn}
    /\ connected = TRUE
    /\ previousClientCount = 1
    /\ syncThreads = 1
    /\ applying = <<>>

\* X on (0,0) and (1,0), O on (0,1) and (1,1)
midTiles ==
    [y \in Idx |-> [x \in Idx |->
        IF x < 2 /\ y = 0 THEN X ELSE IF x < 2 /\ y = 1 THEN O ELSE EMPTY]]

\* both sessions after X (0,0), O (0,1), X (1,0), O (1,1)
MidGame ==
    /\ board = [e \in Endpoints |-> midTiles]
    /\ localCurrentPlayer = [e \in Endpoints |-> X]
    /\ localResult = [e \in Endpoints |-> IN_PROGRESS]
    /\ commandInputQueue = [e \in Endpoints |-> <<>>]
    /\ cmd = [server |-> NetworkMoveCmd(1, 1, O), client |-> PlaceMarkCmd(1, 1, O)]
    /\ currentRenderState =
          [e \in Endpoints |-> Snapshot(midTiles, X, IN_PROGRESS, e)]
    /\ gameStateQueue = [e \in Endpoints |-> <<>>]
    /\ net = [e \in Endpoints |-> <<>>]

InitSync == MidGame /\ Joined /\ Plain /\ Budget(MaxClicks, MaxClicks, 0)

NextSync ==
    \/ \E e \in Endpoints : \E x \in Idx : \E y \in Idx : handleMouseClick(e, x, y)
    \/ \E e \in Endpoints : AppIterate(e)
    \/ \E e \in Endpoints : LogicPlaceMark(e)
    \/ \E e \in Endpoints : LogicNetworkMove(e)
    \/ LogicSyncStateRequest("server")
    \/ LogicSyncStateReceived("client")
    \/ \E recv \in BOOLEAN : ServerTick(FALSE, recv)
    \/ \E recv \in BOOLEAN : ClientTick(FALSE, recv)
    \/ ClientSetTile
    \/ ClientSynced
    \/ SyncTimer

SpecSync == InitSync /\ [][NextSync]_vars

-----------------------------------------------------------------------------
(* The logic thread of one endpoint on its own: whatever command the
   render thread, the network thread or a delayed thread may enqueue is
   handed to it when it is idle.  The endpoint is either still connecting
   or has just been joined; the packets it sends leave for the peer, which stays as
   started. *)

\* positions a command may carry: tiles of the grid, a position left of it
\* and a position below it
TestCells ==
    {p \in Idx \X Idx : p[2] * SIZE + p[1] < MaxEngineCell}
        \cup {<<0 - 1, 0>>, <<1, SIZE>>}

EngineCommands ==
    {PlaceMarkCmd(p[1], p[2], m) : p \in TestCells, m \in Marks}
        \cup {NetworkMoveCmd(p[1], p[2], m) : p \in TestCells, m \in Marks}
        \cup {ResetGameCmd(b) : b \in BOOLEAN}
        \cup {NetworkResetCmd, SyncStateRequestCmd}
        \cup {SyncStateReceivedCmd(m) : m \in Marks}

InitEngine ==
    /\ Started
    /\ Connecting \/ Joined
    /\ \/ Plain /\ Budget(MaxCmds, 0, 0)
       \/ Plain /\ Budget(0, MaxCmds, 0)

Enqueue(e, c) ==
    /\ inputsLeft[e] > 0
    /\ commandInputQueue[e] = <<>>
    /\ gameStateQueue[e] = <<>>
    /\ net[Peer(e)] = <<>>
    /\ enqueueCommand(e, c)
    /\ inputsLeft' = [inputsLeft EXCEPT ![e] = @ - 1]
    /\ UNCHANGED <<cmd, engineVars, renderVars, net, linkVars, resetsLeft, wireVars, handOffVars>>

\* the transport hands a sent packet over to the peer
Transmit(e) ==
    /\ net[Peer(e)] # <<>>
    /\ net' = [net EXCEPT ![Peer(e)] = Tail(@)]
    /\ UNCHANGED <<cmd, engineVars, renderVars, commandInputQueue, linkVars, boundVars, wireVars, handOffVars>>

NextEngine ==
    \/ \E e \in Endpoints : \E c \in EngineCommands : Enqueue(e, c)
    \/ \E e \in Endpoints : LogicPlaceMark(e)
    \/ \E e \in Endpoints : LogicNetworkMove(e)
    \/ \E e \in Endpoints : LogicResetGame(e)
    \/ \E e \in Endpoints : LogicNetworkReset(e)
    \/ \E e \in Endpoints : LogicSyncStateRequest(e)
    \/ \E e \in Endpoints : LogicSyncStateReceived(e)
    \/ \E e \in Endpoints : AppIterate(e)
    \/ \E e \in Endpoints : Transmit(e)

SpecEngine == InitEngine /\ [][NextEngine]_vars

-----------------------------------------------------------------------------
(* The client takes a GAME_STATE packet with any board on it: its network
   thread rebuilds the board from the packet and its logic thread
   recomputes the result with Board::checkWinner *)

TileStates == {EMPTY, X, O}

InitBoard ==
    /\ Fresh
    /\ cmd = [server |-> SyncStateRequestCmd, client |-> NoCmd]
    /\ Established
    /\ Plain /\ Budget(0, 0, 0)
    /\ \E tiles \in [Idx -> [Idx -> TileStates]] : \E player \in Marks :
          net = [server |-> <<>>,
                 client |-> <<GameStatePkt(tiles, player, checkWinner(tiles))>>]

NextBoard ==
    \/ ClientTick(FALSE, TRUE)
    \/ ClientSetTile
    \/ ClientSynced
    \/ LogicSyncStateReceived("client")
    \/ AppIterate("client")

SpecBoard == InitBoard /\ [][NextBoard]_vars

-----------------------------------------------------------------------------
(* The same GAME_STATE packet twice.  The host, whose engine holds any grid
   on the first MaxCell cells, has handled two SYNC_STATE_REQUESTs in a row
   (two increases of the client count) without a move in between; both
   packets are on their way to the participant, whose engine is in one of
   the states of ParticipantStates. *)

TwiceTiles ==
    {tiles \in [Idx -> [Idx -> TileStates]] :
        \A x \in Idx : \A y \in Idx : y * SIZE + x >= MaxCell => tiles[y][x] = EMPTY}

\* the participant's engine and last command: after the join's sync of an
\* empty game, after the network move X (2,2), after X has won on row 2
ParticipantStates ==
    {[tiles |-> resetBoard, player |-> X, cmd |-> SyncStateReceivedCmd(X)],
     [tiles |-> [resetBoard EXCEPT ![2][2] = X], player |-> O,
      cmd |-> NetworkMoveCmd(2, 2, X)],
     [tiles |-> [resetBoard EXCEPT ![2] = [x \in Idx |-> X]], player |-> X,
      cmd |-> NetworkMoveCmd(2, 2, X)]}

InitTwice ==
    /\ Established
    /\ Plain /\ Budget(0, 0, 0)
    /\ commandInputQueue = [e \in Endpoints |-> <<>>]
    /\ gameStateQueue = [e \in Endpoints |-> <<>>]
    /\ \E tiles \in TwiceTiles : \E player \in Marks : \E p \in ParticipantStates :
          /\ board = [server |-> tiles, client |-> p.tiles]
          /\ localCurrentPlayer = [server |-> player, client |-> p.player]
          /\ localResult = [server |-> checkWinner(tiles),
                            client |-> checkWinner(p.tiles)]
          /\ cmd = [server |-> SyncStateRequestCmd, client |-> p.cmd]
          /\ currentRenderState =
                [server |-> Snapshot(tiles, player, checkWinner(tiles), "server"),
                 client |-> Snapshot(p.tiles, p.player, checkWinner(p.tiles), "client")]
          /\ net = [server |-> <<>>,
                    client |-> <<GameStatePkt(tiles, player, checkWinner(tiles)),
                                 GameStatePkt(tiles, player, checkWinner(tiles))>>]

NextTwice ==
    \/ ClientTick(FALSE, TRUE)
    \/ ClientSetTile
    \/ ClientSynced
    \/ LogicSyncStateReceived("client")
    \/ AppIterate("client")

SpecTwice == InitTwice /\ [][NextTwice]_vars

-----------------------------------------------------------------------------
(* The roster.  The host listens and nobody has connected yet; up to
   MaxConns connections are opened to its listen socket, each with a handle
   of its own.  The sockets library queues a status change per connection
   event; the server's RunCallbacks hands them, in order, to
   GameServer::onConnectionStatusChanged. *)

Listening ==
    /\ InGame(FALSE, FALSE)
    /\ pendingCallbacks = [server |-> <<>>, client |-> <<>>]
    /\ clients = {}
    /\ connected = FALSE
    /\ previousClientCount = 0
    /\ syncThreads = 0
    /\ applying = <<>>
    /\ m_eState = [h \in Conns |-> "Unused"]
    /\ statusChanged = <<>>

InitRoster == Started /\ Listening /\ Plain /\ Budget(0, 0, 0)

\* the library moves connection h to a state and queues the callback
changeStatus(h, state) ==
    /\ m_eState' = [m_eState EXCEPT ![h] = state]
    /\ statusChanged' = Append(statusChanged, [m_hConn |-> h, m_eState |-> state])
    /\ UNCHANGED <<cmd, engineVars, renderVars, commandInputQueue, net,
                   pendingCallbacks, clients, connected, previousClientCount,
                   syncThreads, applying, sessionVars, boundVars, wireVars, handOffVars>>

\* a peer's ConnectByIPAddress reaches the listen socket
ConnectionRequest(h) ==
    /\ m_eState[h] = "Unused"
    /\ changeStatus(h, "Connecting")

\* the handshake of an accepted connection completes
RouteFound(h) ==
    /\ m_eState[h] = "FindingRoute"
    /\ changeStatus(h, "Connected")

Open(h) == m_eState[h] \in {"Connecting", "FindingRoute", "Connected"}

\* the peer closes the connection
ClosedByPeer(h) ==
    /\ Open(h)
    /\ changeStatus(h, "ClosedByPeer")

\* the connection times out or fails
ProblemDetectedLocally(h) ==
    /\ Open(h)
    /\ changeStatus(h, "ProblemDetectedLocally")

\* mutant: a closed or failed connection keeps its entry of the roster
statusChangeKeepsEntry(info, st) ==
    LET h == info.m_hConn
    IN  IF info.m_eState = "Connecting"
        THEN [st EXCEPT !.m_eState[h] =
                 IF Cardinality(st.clients) >= MaxClients THEN "None"
                 ELSE IF st.m_eState[h] = "Connecting" THEN "FindingRoute"
                 ELSE "None"]
        ELSE IF info.m_eState = "Connected"
        THEN [st EXCEPT !.clients = @ \cup {h}]
        ELSE st

\* the body of GameServer::onConnectionStatusChanged: the roster and the
\* connections' states after the callback for info
statusChange(info, st) ==
    LET h == info.m_hConn
    IN  IF info.m_eState = "Connecting"
        THEN \* "Enforce 2-player limit"; AcceptConnection succeeds only
             \* on a connection that is still connecting
             [st EXCEPT !.m_eState[h] =
                 IF Cardinality(st.clients) >= MaxClients THEN "None"
                 ELSE IF st.m_eState[h] = "Connecting" THEN "FindingRoute"
                 ELSE "None"]
        ELSE IF info.m_eState = "Connected"
        THEN \* "Add to clients list (avoid duplicates)"
             [st EXCEPT !.clients = @ \cup {h}]
        ELSE \* ClosedByPeer, ProblemDetectedLocally
             [st EXCEPT !.clients = @ \ {h}]

\* GameServer::onConnectionStatusChanged for the status change queued first
onConnectionStatusChanged ==
    /\ statusChanged # <<>>
    /\ statusChanged' = Tail(statusChanged)
    /\ LET st == statusChange(Head(statusChanged),
                              [clients |-> clients, m_eState |-> m_eState])
       IN  /\ clients' = st.clients
           /\ m_eState' = st.m_eState
    /\ UNCHANGED <<cmd, engineVars, renderVars, commandInputQueue, net,
                   pendingCallbacks, connected, previousClientCount, syncThreads,
                   applying, sessionVars, boundVars, wireVars, handOffVars>>

NextRoster ==
    \/ \E h \in Conns : ConnectionRequest(h)
    \/ \E h \in Conns : RouteFound(h)
    \/ \E h \in Conns : ClosedByPeer(h)
    \/ \E h \in Conns : ProblemDetectedLocally(h)
    \/ onConnectionStatusChanged

SpecRoster == InitRoster /\ [][NextRoster]_vars

-----------------------------------------------------------------------------
(* The host while peers come and go: one iteration of its network thread runs
   every pending callback and then compares the roster's size with the size it
   saw the iteration before *)

\* RunCallbacks: the callbacks of the queued status changes, in their order
RECURSIVE runCallbacks(_, _)
runCallbacks(changes, st) ==
    IF changes = <<>> THEN st
    ELSE runCallbacks(Tail(changes), statusChange(Head(changes), st))

\* the server branch of an iteration of Game::networkThreadFunc (no packet is
\* waiting: the peers of this specification send none)
HostTick ==
    /\ running["server"]
    /\ networkThread["server"] = "running"
    /\ LET st == runCallbacks(statusChanged,
                              [clients |-> clients, m_eState |-> m_eState])
       IN  /\ clients' = st.clients
           /\ m_eState' = st.m_eState
           /\ trackClients(Cardinality(st.clients))
    /\ statusChanged' = <<>>
    /\ UNCHANGED <<cmd, engineVars, renderVars, commandInputQueue, net,
                   pendingCallbacks, connected, applying, threadVars,
                   gameClientRunning, wasConnected, sent, timeouts, stopGames,
                   session, boundVars, wireVars, handOffVars>>

InitHost == Started /\ Listening /\ Plain /\ Budget(0, 0, 0)

NextHost ==
    \/ \E h \in Conns : ConnectionRequest(h)
    \/ \E h \in Conns : RouteFound(h)
    \/ \E h \in Conns : ClosedByPeer(h)
    \/ \E h \in Conns : ProblemDetectedLocally(h)
    \/ HostTick
    \/ SyncTimer
    \/ LogicSyncStateRequest("server")

SpecHost == InitHost /\ [][NextHost]_vars

-----------------------------------------------------------------------------
(* The participant's sessions: startGame, the loops of the two threads, the
   timeout thread the network thread starts when it sees the connection go,
   the "Disconnect" button, stopGame step by step, and the next startGame.
   The host stays as it is, the game is not played. *)

\* the participant's program is at its main menu; the host listens
\* (hosting) or is at its main menu too
AtMenu(hosting) ==
    /\ running = [e \in Endpoints |-> isServer(e) /\ hosting]
    /\ gameState = [e \in Endpoints |->
                       IF isServer(e) /\ hosting THEN "IN_GAME" ELSE "MAIN_MENU"]
    /\ logicThread = [e \in Endpoints |->
                         IF isServer(e) /\ hosting THEN "running" ELSE "none"]
    /\ networkThread = [e \in Endpoints |->
                           IF isServer(e) /\ hosting THEN "running" ELSE "none"]
    /\ allocated = [e \in Endpoints |-> isServer(e) /\ hosting]
    /\ mainThread = "iterate"
    /\ terminated = FALSE
    /\ gameClientRunning = FALSE
    /\ wasConnected = FALSE
    /\ hasShownDisconnect = [e \in Endpoints |-> FALSE]
    /\ clientDisconnected = FALSE
    /\ messageQueue = [e \in Endpoints |-> <<>>]
    /\ sent = {}
    /\ timeouts = <<>>
    /\ stopGames = <<>>
    /\ session = 0
    /\ pendingCallbacks = [server |-> <<>>, client |-> <<>>]
    /\ clients = {}
    /\ connected = FALSE
    /\ previousClientCount = 0
    /\ syncThreads = 0
    /\ applying = <<>>
    /\ m_eState = [h \in Conns |-> "Unused"]
    /\ statusChanged = <<>>

\* mutant: the stop flag is cleared for the loops before the transport is
\* started
runningSetFirst(connecting) == [running EXCEPT !["client"] = TRUE]

\* Game::startGame sets "running = true" once the transport has started
runningAfterStart(connecting) ==
    IF connecting THEN [running EXCEPT !["client"] = TRUE] ELSE running

\* Game::startGame(true, ...) when GameServer::startServer returns false
startServerFails ==
    /\ gameState["server"] = "MAIN_MENU"
    /\ inputsLeft["server"] > 0
    /\ inputsLeft' = [inputsLeft EXCEPT !["server"] = @ - 1]
    /\ board' = [board EXCEPT !["server"] = resetBoard]
    /\ currentRenderState' =
          [currentRenderState EXCEPT !["server"].currentPlayer = X,
                                     !["server"].result = IN_PROGRESS,
                                     !["server"].isMyTurn = TRUE]
    /\ allocated' = [allocated EXCEPT !["server"] = TRUE]
    /\ clientDisconnected' = FALSE
    /\ messageQueue' = addMessage("server", "Failed to start server!")
    /\ UNCHANGED <<cmd, localCurrentPlayer, localResult, gameStateQueue,
                   commandInputQueue, net, pendingCallbacks, clients, connected,
                   previousClientCount, syncThreads, applying, socketVars, running,
                   gameState, logicThread, networkThread, mainThread, terminated,
                   gameClientRunning, wasConnected, hasShownDisconnect, sent,
                   timeouts, stopGames, session, resetsLeft, wireVars, handOffVars>>

\* Game::startGame(false, ...) up to "running = true": connecting says whether
\* GameClient::connectToServer returned true
startGame(connecting) ==
    /\ ~terminated
    /\ mainThread = "iterate"
    /\ gameState["client"] = "MAIN_MENU"
    /\ inputsLeft["client"] > 0
    /\ inputsLeft' = [inputsLeft EXCEPT !["client"] = @ - 1]
    /\ board' = [board EXCEPT !["client"] = resetBoard]
    /\ currentRenderState' =
          [currentRenderState EXCEPT !["client"].currentPlayer = X,
                                     !["client"].result = IN_PROGRESS,
                                     !["client"].isMyTurn = FALSE]
    /\ allocated' = [allocated EXCEPT !["client"] = TRUE]
    /\ connected' = FALSE
    /\ pendingCallbacks' = [pendingCallbacks EXCEPT !["client"] = <<>>]
    /\ gameClientRunning' = connecting
    /\ m_eState' = [m_eState EXCEPT ![hConn] = IF connecting THEN "Connecting" ELSE "None"]
    /\ messageQueue' = addMessage("client", IF connecting THEN "Connecting to server..."
                                            ELSE "Failed to connect to server!")
    /\ running' = runningAfterStart(connecting)
    /\ session' = IF connecting THEN session + 1 ELSE session
    /\ mainThread' = IF connecting THEN "startGame" ELSE "iterate"
    /\ UNCHANGED <<cmd, localCurrentPlayer, localResult, gameStateQueue,
                   commandInputQueue, net, clients, previousClientCount, syncThreads,
                   applying, statusChanged, gameState, logicThread, networkThread,
                   terminated, wasConnected, hasShownDisconnect, clientDisconnected,
                   sent, timeouts, stopGames, resetsLeft, wireVars, handOffVars>>

\* the rest of Game::startGame: the two threads and gameState; assigning to a
\* std::thread that is still joinable calls std::terminate
startThreads ==
    /\ ~terminated
    /\ mainThread = "startGame"
    /\ IF logicThread["client"] # "none" \/ networkThread["client"] # "none"
       THEN /\ terminated' = TRUE
            /\ UNCHANGED <<logicThread, networkThread, gameState, mainThread,
                           localCurrentPlayer, localResult, wasConnected,
                           hasShownDisconnect>>
       ELSE /\ logicThread' = [logicThread EXCEPT !["client"] = "running"]
            /\ networkThread' = [networkThread EXCEPT !["client"] = "running"]
            /\ gameState' = [gameState EXCEPT !["client"] = "IN_GAME"]
            /\ mainThread' = "iterate"
            \* the locals of the two thread functions
            /\ localCurrentPlayer' = [localCurrentPlayer EXCEPT !["client"] = X]
            /\ localResult' = [localResult EXCEPT !["client"] = IN_PROGRESS]
            /\ wasConnected' = FALSE
            /\ hasShownDisconnect' = [hasShownDisconnect EXCEPT !["client"] = FALSE]
            /\ UNCHANGED terminated
    /\ UNCHANGED <<board, cmd, renderVars, commandInputQueue, net, pendingCallbacks,
                   clients, connected, previousClientCount, syncThreads, applying,
                   socketVars, running, allocated, gameClientRunning,
                   clientDisconnected, messageQueue, sent, timeouts, stopGames,
                   session, boundVars, wireVars, handOffVars>>

\* what the steps of the threads and of stopGame leave alone
sessionKept ==
    UNCHANGED <<cmd, engineVars, renderVars, commandInputQueue, net, clients,
                previousClientCount, syncThreads, applying, statusChanged,
                clientDisconnected, sent, session, boundVars, wireVars, handOffVars>>

\* the server accepts the participant's connection; the server closes it or
\* it fails: the library queues the callback
linkChanged(state) ==
    /\ m_eState' = [m_eState EXCEPT ![hConn] = state]
    /\ pendingCallbacks' = [pendingCallbacks EXCEPT !["client"] = Append(@, state)]
    /\ UNCHANGED <<connected, threadVars, gameClientRunning, wasConnected,
                   hasShownDisconnect, messageQueue, timeouts, stopGames>>
    /\ sessionKept

Accepted ==
    /\ ~terminated
    /\ gameState["server"] = "IN_GAME"
    /\ m_eState[hConn] = "Connecting"
    /\ linkChanged("Connected")

Lost(state) ==
    /\ ~terminated
    /\ m_eState[hConn] \in {"Connecting", "Connected"}
    /\ linkChanged(state)

\* the body of GameClient::onConnectionStatusChanged
clientStatusChange(state, st) ==
    IF state = "Connected" THEN [st EXCEPT !.connected = TRUE]
    ELSE IF state \in {"ClosedByPeer", "ProblemDetectedLocally"}
    THEN [connected |-> FALSE, running |-> FALSE]
    ELSE st

RECURSIVE clientCallbacks(_, _)
clientCallbacks(changes, st) ==
    IF changes = <<>> THEN st
    ELSE clientCallbacks(Tail(changes), clientStatusChange(Head(changes), st))

\* the client branch of an iteration of Game::networkThreadFunc (no packet is
\* waiting): updateClient runs every pending callback unless the GameClient
\* has stopped, then the connection is compared with the iteration before
ParticipantTick ==
    /\ ~terminated
    /\ networkThread["client"] = "running"
    /\ running["client"]
    /\ allocated["client"]
    /\ LET st == IF gameClientRunning
                 THEN clientCallbacks(pendingCallbacks["client"],
                                      [connected |-> connected,
                                       running |-> gameClientRunning])
                 ELSE [connected |-> connected, running |-> gameClientRunning]
       IN  /\ connected' = st.connected
           /\ gameClientRunning' = st.running
    /\ pendingCallbacks' = IF gameClientRunning
                           THEN [pendingCallbacks EXCEPT !["client"] = <<>>]
                           ELSE pendingCallbacks
    /\ trackConnection(connected')
    /\ UNCHANGED <<m_eState, threadVars, stopGames>>
    /\ sessionKept

\* mutant: the logic loop tests gameState instead of the stop flag
LogicExitOnMenu ==
    /\ ~terminated
    /\ logicThread["client"] = "running"
    /\ gameState["client"] = "MAIN_MENU"
    /\ logicThread' = [logicThread EXCEPT !["client"] = "exited"]
    /\ UNCHANGED <<pendingCallbacks, connected, m_eState, running, gameState,
                   networkThread, allocated, mainThread, terminated,
                   gameClientRunning, trackVars, timeouts, stopGames>>
    /\ sessionKept

\* "while (running)" is found false: the thread function returns
LogicExit ==
    /\ ~terminated
    /\ logicThread["client"] = "running"
    /\ ~running["client"]
    /\ logicThread' = [logicThread EXCEPT !["client"] = "exited"]
    /\ UNCHANGED <<pendingCallbacks, connected, m_eState, running, gameState,
                   networkThread, allocated, mainThread, terminated,
                   gameClientRunning, trackVars, timeouts, stopGames>>
    /\ sessionKept

NetworkExit ==
    /\ ~terminated
    /\ networkThread["client"] = "running"
    /\ ~running["client"]
    /\ networkThread' = [networkThread EXCEPT !["client"] = "exited"]
    /\ UNCHANGED <<pendingCallbacks, connected, m_eState, running, gameState,
                   logicThread, allocated, mainThread, terminated,
                   gameClientRunning, trackVars, timeouts, stopGames>>
    /\ sessionKept

\* a call of Game::stopGame begins
called(by, from) == [by |-> by, from |-> from, session |-> session, pc |-> "flag"]

\* the "Disconnect" button of the in-game window
Disconnect ==
    /\ ~terminated
    /\ mainThread = "iterate"
    /\ gameState["client"] = "IN_GAME"
    /\ stopGames' = Append(stopGames, called("main", session))
    /\ mainThread' = "stopGame"
    /\ UNCHANGED <<pendingCallbacks, connected, m_eState, running, gameState,
                   logicThread, networkThread, allocated, terminated,
                   gameClientRunning, trackVars, timeouts>>
    /\ sessionKept

\* mutant: the detached thread ends without calling stopGame
TimeoutWakeIdle(t) ==
    /\ ~terminated
    /\ timeouts[t].pc = "sleep"
    /\ timeouts' = [timeouts EXCEPT ![t].pc = "done"]
    /\ UNCHANGED <<pendingCallbacks, connected, m_eState, threadVars,
                   gameClientRunning, trackVars, stopGames>>
    /\ sessionKept

\* the detached thread of the participant's network thread wakes up after its
\* 5 seconds: "if (running) stopGame();"
TimeoutWake(t) ==
    /\ ~terminated
    /\ timeouts[t].pc = "sleep"
    /\ timeouts' = [timeouts EXCEPT ![t].pc = IF running["client"] THEN "stopGame"
                                              ELSE "done"]
    /\ stopGames' = IF running["client"]
                    THEN Append(stopGames, called("timeout", timeouts[t].session))
                    ELSE stopGames
    /\ UNCHANGED <<pendingCallbacks, connected, m_eState, threadVars,
                   gameClientRunning, trackVars>>
    /\ sessionKept

at(i, pc) == [stopGames EXCEPT ![i].pc = pc]

\* Game::stopGame: "running = false"
StopFlag(i) ==
    /\ ~terminated
    /\ stopGames[i].pc = "flag"
    /\ running' = [running EXCEPT !["client"] = FALSE]
    /\ stopGames' = at(i, "logicJoinable")
    /\ UNCHANGED <<pendingCallbacks, connected, m_eState, gameState, logicThread,
                   networkThread, allocated, mainThread, terminated,
                   gameClientRunning, trackVars, timeouts>>
    /\ sessionKept

\* "if (logicThread.joinable())", "if (networkThread.joinable())"
StopJoinable(i) ==
    /\ ~terminated
    /\ stopGames[i].pc \in {"logicJoinable", "networkJoinable"}
    /\ stopGames' =
          IF stopGames[i].pc = "logicJoinable"
          THEN at(i, IF logicThread["client"] # "none" THEN "logicJoin"
                     ELSE "networkJoinable")
          ELSE at(i, IF networkThread["client"] # "none" THEN "networkJoin"
                     ELSE "release")
    /\ UNCHANGED <<pendingCallbacks, connected, m_eState, threadVars,
                   gameClientRunning, trackVars, timeouts>>
    /\ sessionKept

\* "logicThread.join()", "networkThread.join()": the call returns once the
\* thread has ended. A join of a thread that another call of stopGame has
\* joined since the test is undefined: it throws, which ends the process (the
\* call is not in a try block), or it returns
StopJoin(i, throws) ==
    /\ ~terminated
    /\ stopGames[i].pc \in {"logicJoin", "networkJoin"}
    /\ LET logic == stopGames[i].pc = "logicJoin"
           thread == IF logic THEN logicThread["client"] ELSE networkThread["client"]
           next == IF logic THEN "networkJoinable" ELSE "release"
       IN  /\ thread # "running"
           /\ throws => thread = "none"
           /\ terminated' = throws
           /\ stopGames' = IF throws THEN stopGames ELSE at(i, next)
           /\ logicThread' = IF logic /\ ~throws
                             THEN [logicThread EXCEPT !["client"] = "none"]
                             ELSE logicThread
           /\ networkThread' = IF ~logic /\ ~throws
                               THEN [networkThread EXCEPT !["client"] = "none"]
                               ELSE networkThread
    /\ UNCHANGED <<pendingCallbacks, connected, m_eState, running, gameState,
                   allocated, mainThread, gameClientRunning, trackVars, timeouts>>
    /\ sessionKept

\* "gameClient.reset()" (~GameClient closes the connection), "board.reset()"
\* and the messages are cleared
StopRelease(i) ==
    /\ ~terminated
    /\ stopGames[i].pc = "release"
    /\ allocated' = [allocated EXCEPT !["client"] = FALSE]
    /\ gameClientRunning' = FALSE
    /\ connected' = FALSE
    /\ m_eState' = [m_eState EXCEPT ![hConn] = "None"]
    /\ pendingCallbacks' = [pendingCallbacks EXCEPT !["client"] = <<>>]
    /\ messageQueue' = [messageQueue EXCEPT !["client"] = <<>>]
    /\ stopGames' = at(i, "menu")
    /\ UNCHANGED <<running, gameState, logicThread, networkThread, mainThread,
                   terminated, wasConnected, hasShownDisconnect, timeouts>>
    /\ sessionKept

\* "gameState = GameState::MAIN_MENU" and the call returns
StopMenu(i) ==
    /\ ~terminated
    /\ stopGames[i].pc = "menu"
    /\ gameState' = [gameState EXCEPT !["client"] = "MAIN_MENU"]
    /\ stopGames' = at(i, "done")
    /\ mainThread' = IF stopGames[i].by = "main" THEN "iterate" ELSE mainThread
    /\ UNCHANGED <<pendingCallbacks, connected, m_eState, running, logicThread,
                   networkThread, allocated, terminated, gameClientRunning,
                   trackVars, timeouts>>
    /\ sessionKept

stopGame(i) ==
    \/ StopFlag(i)
    \/ StopJoinable(i)
    \/ \E throws \in BOOLEAN : StopJoin(i, throws)
    \/ StopRelease(i)
    \/ StopMenu(i)

InitSession ==
    \E hosting \in BOOLEAN :
        Started /\ AtMenu(hosting) /\ Plain /\ Budget(IF hosting THEN 0 ELSE 1, MaxStarts, 0)

NextSession ==
    \/ startServerFails
    \/ \E connecting \in BOOLEAN : startGame(connecting)
    \/ startThreads
    \/ Accepted
    \/ \E state \in {"ClosedByPeer", "ProblemDetectedLocally"} : Lost(state)
    \/ ParticipantTick
    \/ LogicExit
    \/ NetworkExit
    \/ Disconnect
    \/ \E t \in DOMAIN timeouts : TimeoutWake(t)
    \/ \E i \in DOMAIN stopGames : stopGame(i)

SpecSession == InitSession /\ [][NextSession]_vars

\* the participant's sessions when its user leaves the "Disconnect" button
\* alone, with every thread that can take a step taking it in the end: the
\* loops sleep 10 ms an iteration, the timeout thread 5 s, and stopGame and
\* startGame block on nothing but the joins
NextUnattended ==
    \/ startServerFails
    \/ \E connecting \in BOOLEAN : startGame(connecting)
    \/ startThreads
    \/ Accepted
    \/ \E state \in {"ClosedByPeer", "ProblemDetectedLocally"} : Lost(state)
    \/ ParticipantTick
    \/ LogicExit
    \/ NetworkExit
    \/ \E t \in DOMAIN timeouts : TimeoutWake(t)
    \/ \E i \in DOMAIN stopGames : stopGame(i)

threadsRun ==
    /\ WF_vars(startThreads)
    /\ WF_vars(ParticipantTick)
    /\ WF_vars(LogicExit)
    /\ WF_vars(NetworkExit)
    /\ WF_vars(\E t \in DOMAIN timeouts : TimeoutWake(t))
    /\ WF_vars(\E i \in DOMAIN stopGames : stopGame(i))

SpecUnattended == InitSession /\ [][NextUnattended]_vars /\ threadsRun

-----------------------------------------------------------------------------
(* The wire.  In the middle of a game over the established connection one
   message arrives at one of the endpoints: the text of a packet the peer's
   logic thread may build, or a text that is none. *)

\* the results a GAME_STATE packet may carry
Results == {IN_PROGRESS, X_WINS, O_WINS, DRAW}

\* the packets of the three kinds with valid fields, the board with any
\* marks on its first MaxCell cells
WirePackets ==
    {PlayerMovePkt(x, y, mark) : x \in Idx, y \in Idx, mark \in Marks}
        \cup {GameResetPkt}
        \cup {GameStatePkt(tiles, player, result) :
                 tiles \in TwiceTiles, player \in Marks, result \in Results}

\* texts that are not the text of such a packet: cut short, empty, a json
\* value that is no object, an object without "type", a "type" that is no
\* number, a type that no enumerator names, a move without its "y", a board
\* without its "currentPlayer", a "currentPlayer" that is no number, a
\* "board" that is no array
MalformedTexts ==
    LET move == serialize(networkPacketOf(PlayerMovePkt(2, 2, O)))
        X00 == [i \in 1..(SIZE * SIZE) |-> IF i = SIZE * SIZE THEN number(X)
                                           ELSE number(EMPTY)]
    IN  {SubSeq(move, 1, Len(move) - 1),
         <<>>,
         <<"hello">>,
         dump(object([data |-> null])),
         dump(object([type |-> array(<<>>), data |-> null])),
         dump(object([type |-> number(7), data |-> null])),
         dump(object([type |-> number(0), data |-> object([x |-> number(2)])])),
         dump(object([type |-> number(1), data |-> object([board |-> array(X00)])])),
         dump(object([type |-> number(1),
                      data |-> object([board |-> array(X00),
                                       currentPlayer |-> string("O")])])),
         dump(object([type |-> number(1), data |-> object([board |-> number(7)])]))}

\* each of the packets as the logic thread builds it and as it is sent
Sendings ==
    {[packet |-> networkPacketOf(pkt), text |-> serialize(networkPacketOf(pkt))] :
        pkt \in WirePackets}

Texts == {sending.text : sending \in Sendings} \cup MalformedTexts

InitWire ==
    /\ MidGame
    /\ Established
    /\ Budget(0, 0, 0)
    /\ incomingPackets = [e \in Endpoints |-> <<>>]
    /\ uncaught = [e \in Endpoints |-> FALSE]
    /\ copying = [e \in Endpoints |-> [t \in Threads |-> <<>>]]
    /\ producer = [e \in Endpoints |-> <<>>]
    /\ \E e \in Endpoints : \E text \in Texts :
          wire = [r \in Endpoints |-> IF r = e THEN <<text>> ELSE <<>>]

NextWire ==
    \/ \E e \in Endpoints : processMessage(e)
    \/ ServerTakesPacket
    \/ ClientTakesPacket
    \/ ClientSetTile
    \/ ClientPublishes
    \/ \E e \in Endpoints : Alive(e) /\ LogicNetworkMove(e)
    \/ Alive("server") /\ LogicNetworkReset("server")
    \/ Alive("client") /\ LogicResetGame("client")
    \/ Alive("client") /\ LogicSyncStateReceived("client")
    \/ \E e \in Endpoints : Alive(e) /\ AppIterate(e)

SpecWire == InitWire /\ [][NextWire]_vars

-----------------------------------------------------------------------------
(* The hand-off of the render state.  currentRenderState is a plain member
   that three threads assign: the logic thread and the client's network
   thread before they enqueue their snapshot, the main thread for every
   snapshot it dequeues.  An assignment copies the struct member by member,
   so it is two steps here: the thread begins it, and the thread ends it.
   gameStateQueue is a moodycamel::ConcurrentQueue with one sub-queue per
   enqueuing thread: try_dequeue takes the oldest element of a sub-queue it
   chooses.  The participant has just joined and the host's delayed sync is
   to come; each player clicks once. *)

\* whether the handler of command c, met by engine s, assigns and enqueues a
\* snapshot
publishes(s, c) ==
    \/ c.type \in {"RESET_GAME", "NETWORK_RESET", "SYNC_STATE_RECEIVED"}
    \/ /\ c.type = "PLACE_MARK"
       /\ s.result = IN_PROGRESS
       /\ c.mark = s.currentPlayer
       /\ setTileReturns(s.tiles, c.x, c.y)
    \/ c.type = "NETWORK_MOVE" /\ setTileReturns(s.tiles, c.x, c.y)

\* the packet that the handler of command c sends, if any
packetsOf(e, s, c) ==
    IF c.type = "PLACE_MARK" /\ publishes(s, c)
    THEN <<PlayerMovePkt(c.x, c.y, c.mark)>>
    ELSE IF c.type = "RESET_GAME" /\ ~c.fromNetwork THEN <<GameResetPkt>>
    ELSE IF c.type = "SYNC_STATE_REQUEST" /\ isServer(e)
    THEN <<GameStatePkt(s.tiles, s.currentPlayer, s.result)>>
    ELSE <<>>

\* thread t of e begins "currentRenderState = snapshot": the assignments
\* under way come to overlap with it
begins(e, t, snapshot) ==
    LET underWay(u) == IF u # t /\ copying[e][u] # <<>>
                       THEN <<Head(copying[e][u])>>
                       ELSE <<>>
    IN  [copying EXCEPT ![e] =
            [u \in Threads |->
                IF u = t
                THEN <<snapshot>> \o underWay("main") \o underWay("logic")
                                 \o underWay("network")
                ELSE IF copying[e][u] # <<>> THEN Append(copying[e][u], snapshot)
                ELSE <<>>]]

\* the values an assignment may leave: the members of the snapshots it copied from
\* and of those whose assignment overlapped with it
mixed(snapshots) ==
    LET S == {snapshots[i] : i \in DOMAIN snapshots}
    IN  {[boardState |-> a.boardState, currentPlayer |-> b.currentPlayer,
          result |-> c.result, isMyTurn |-> d.isMyTurn] :
            a \in S, b \in S, c \in S, d \in S}

\* thread t of e ends its assignment
ends(e, t) ==
    /\ copying[e][t] # <<>>
    /\ copying' = [copying EXCEPT ![e][t] = <<>>]
    /\ \E value \in mixed(copying[e][t]) :
          currentRenderState' = [currentRenderState EXCEPT ![e] = value]

\* gameStateQueue.enqueue(snapshot) by thread t of e
enqueueSnapshot(e, t, snapshot) ==
    /\ gameStateQueue' = [gameStateQueue EXCEPT ![e] = Append(@, snapshot)]
    /\ producer' = [producer EXCEPT ![e] = Append(@, t)]

\* the logic thread handles a command up to the assignment of its snapshot
LogicHandles(e) ==
    /\ copying[e]["logic"] = <<>>
    /\ commandInputQueue[e] # <<>>
    /\ LET c == Head(commandInputQueue[e])
           s == engineOf(e)
           left == handled(s, c)
           packets == packetsOf(e, s, c)
       IN  /\ commandInputQueue' = [commandInputQueue EXCEPT ![e] = Tail(@)]
           /\ cmd' = [cmd EXCEPT ![e] = c]
           /\ board' = [board EXCEPT ![e] = left.tiles]
           /\ localCurrentPlayer' = [localCurrentPlayer EXCEPT ![e] = left.currentPlayer]
           /\ localResult' = [localResult EXCEPT ![e] = left.result]
           /\ net' = IF packets = <<>> THEN net ELSE sendPacket(e, packets[1])
           /\ sent' = IF c.type = "SYNC_STATE_REQUEST" /\ isServer(e)
                      THEN sent \cup clients
                      ELSE sent
           /\ copying' = IF publishes(s, c)
                         THEN begins(e, "logic",
                                     Snapshot(left.tiles, left.currentPlayer,
                                              left.result, e))
                         ELSE copying
    /\ UNCHANGED <<renderVars, producer, pendingCallbacks, clients, connected,
                   previousClientCount, syncThreads, applying, socketVars, threadVars,
                   gameClientRunning, trackVars, timeouts, stopGames, session,
                   boundVars, wireVars>>

\* the logic thread ends the assignment and enqueues the snapshot
LogicAssigns(e) ==
    /\ ends(e, "logic")
    /\ enqueueSnapshot(e, "logic", Head(copying[e]["logic"]))
    /\ UNCHANGED <<cmd, engineVars, commandInputQueue, net, linkVars, boundVars,
                   wireVars>>

\* client, GAME_STATE after the loop: the network thread fills its snapshot
\* and begins the assignment
ClientSnapshots ==
    /\ applying # <<>>
    /\ applying[1].idx = SIZE * SIZE
    /\ copying["client"]["network"] = <<>>
    /\ copying' = begins("client", "network",
                         Snapshot(board["client"], applying[1].currentPlayer,
                                  applying[1].result, "client"))
    /\ UNCHANGED <<cmd, engineVars, renderVars, producer, commandInputQueue, net,
                   linkVars, boundVars, wireVars>>

\* the network thread ends the assignment, enqueues the snapshot and
\* notifies the logic thread
ClientAssigns ==
    /\ ends("client", "network")
    /\ LET snapshot == Head(copying["client"]["network"])
       IN  /\ enqueueSnapshot("client", "network", snapshot)
           /\ enqueueCommand("client", SyncStateReceivedCmd(snapshot.currentPlayer))
    /\ applying' = <<>>
    /\ UNCHANGED <<cmd, engineVars, net, pendingCallbacks, clients, connected,
                   previousClientCount, syncThreads, socketVars, sessionVars,
                   boundVars, wireVars>>

\* the sequence without its element i
without(seq, i) == SubSeq(seq, 1, i - 1) \o SubSeq(seq, i + 1, Len(seq))

\* Game::AppIterate, "while (gameStateQueue.try_dequeue(newState))": the
\* main thread takes the oldest snapshot of one of the enqueuing threads and
\* begins "currentRenderState = newState"
AppDequeues(e) ==
    /\ copying[e]["main"] = <<>>
    /\ \E i \in DOMAIN gameStateQueue[e] :
          /\ \A j \in 1..(i - 1) : producer[e][j] # producer[e][i]
          /\ gameStateQueue' = [gameStateQueue EXCEPT ![e] = without(@, i)]
          /\ producer' = [producer EXCEPT ![e] = without(@, i)]
          /\ copying' = begins(e, "main", gameStateQueue[e][i])
    /\ UNCHANGED <<cmd, engineVars, currentRenderState, commandInputQueue, net,
                   linkVars, boundVars, wireVars>>

\* the main thread ends the assignment
AppAssigns(e) ==
    /\ ends(e, "main")
    /\ UNCHANGED <<cmd, engineVars, gameStateQueue, producer, commandInputQueue, net,
                   linkVars, boundVars, wireVars>>

InitHandOff ==
    /\ Started
    /\ Joined
    /\ Plain
    /\ Budget(MaxClicks, MaxClicks, 0)

NextHandOff ==
    \/ \E e \in Endpoints : \E x \in Idx : \E y \in Idx :
          /\ y * SIZE + x < MaxHandOffCell
          /\ copying[e]["main"] = <<>>
          /\ handleMouseClick(e, x, y)
    \/ \E e \in Endpoints : AppDequeues(e)
    \/ \E e \in Endpoints : AppAssigns(e)
    \/ \E e \in Endpoints : LogicHandles(e)
    \/ \E e \in Endpoints : LogicAssigns(e)
    \/ \E recv \in BOOLEAN : ServerTick(FALSE, recv)
    \/ \E recv \in BOOLEAN : ClientTick(FALSE, recv)
    \/ ClientSetTile
    \/ ClientSnapshots
    \/ ClientAssigns
    \/ SyncTimer

SpecHandOff == InitHandOff /\ [][NextHandOff]_vars

-----------------------------------------------------------------------------
(* The channels across the participant's sessions: the "R" key and the logic
   loop's handling of its command, the frames of AppIterate, and the stops and
   starts of the sessions above while the host listens and the link holds:
   the user's "Disconnect" ends a session. Neither Game::stopGame nor
   Game::startGame touches commandInputQueue or gameStateQueue. *)

\* Game::AppEvent with the "R" key: events reach Game::handleEvent while
\* gameState is IN_GAME
AppEvent ==
    /\ ~terminated
    /\ mainThread = "iterate"
    /\ gameState["client"] = "IN_GAME"
    /\ handleKeyPress("client")

\* a frame of Game::AppIterate while gameState is IN_GAME
AppIterateInGame ==
    /\ ~terminated
    /\ mainThread = "iterate"
    /\ gameState["client"] = "IN_GAME"
    /\ AppIterate("client")

\* an iteration of the "while (running)" loop of Game::logicThreadFunc that
\* finds a RESET_GAME command (the Grid is there: a session whose Grid has been
\* released under its logic loop is left to the specification above)
logicThreadFunc ==
    /\ ~terminated
    /\ logicThread["client"] = "running"
    /\ running["client"]
    /\ allocated["client"]
    /\ LogicResetGame("client")

InitChannels ==
    Started /\ AtMenu(TRUE) /\ Plain /\ Budget(0, MaxStarts + MaxResets, MaxResets)

NextChannels ==
    \/ \E connecting \in BOOLEAN : startGame(connecting)
    \/ startThreads
    \/ Accepted
    \/ ParticipantTick
    \/ LogicExit
    \/ NetworkExit
    \/ Disconnect
    \/ \E i \in DOMAIN stopGames : stopGame(i)
    \/ AppEvent
    \/ AppIterateInGame
    \/ logicThreadFunc

SpecChannels == InitChannels /\ [][NextChannels]_vars

-----------------------------------------------------------------------------
(* The participant's sessions with the frames of its main thread: Game::render
   draws the Grid while the other threads go on. *)

\* Game::render in a session: Game::renderGame finds "if (board)" true and
\* calls Board::render on it
renderGame ==
    /\ ~terminated
    /\ mainThread = "iterate"
    /\ gameState["client"] = "IN_GAME"
    /\ allocated["client"]
    /\ mainThread' = "render"
    /\ UNCHANGED <<pendingCallbacks, connected, m_eState, running, gameState,
                   logicThread, networkThread, allocated, terminated,
                   gameClientRunning, trackVars, timeouts, stopGames>>
    /\ sessionKept

\* Board::render returns. When the Grid has been released under it, it has
\* read freed memory: the call crashes or goes through
boardRender(crashes) ==
    /\ ~terminated
    /\ mainThread = "render"
    /\ crashes => ~allocated["client"]
    /\ terminated' = crashes
    /\ mainThread' = IF crashes THEN mainThread ELSE "iterate"
    /\ UNCHANGED <<pendingCallbacks, connected, m_eState, running, gameState,
                   logicThread, networkThread, allocated, gameClientRunning,
                   trackVars, timeouts, stopGames>>
    /\ sessionKept

NextTeardown ==
    \/ NextSession
    \/ renderGame
    \/ \E crashes \in BOOLEAN : boardRender(crashes)

SpecTeardown == InitSession /\ [][NextTeardown]_vars

-----------------------------------------------------------------------------
(* Claims *)

\* the two engines hold the same grid, turn mark and result
Agree ==
    /\ board["server"] = board["client"]
    /\ localCurrentPlayer["server"] = localCurrentPlayer["client"]
    /\ localResult["server"] = localResult["client"]

\* every sent packet has been received and every command handled
Quiescent ==
    /\ \A e \in Endpoints : net[e] = <<>> /\ commandInputQueue[e] = <<>>
    /\ applying = <<>>

countOf(tiles, mark) ==
    Cardinality({p \in Idx \X Idx : tiles[p[2]][p[1]] = mark})

\* the step is the logic thread of e handling a command of this type
Handles(e, type) ==
    /\ commandInputQueue[e] # <<>>
    /\ Head(commandInputQueue[e]).type = type
    /\ commandInputQueue'[e] = Tail(commandInputQueue[e])

\* the step is the client's network thread receiving a GAME_STATE packet
ReceivesGameState(e) ==
    /\ e = "client"
    /\ net[e] # <<>>
    /\ Head(net[e]).type = "GAME_STATE"
    /\ net'[e] = Tail(net[e])

\* the rule of PlaceMark: game in progress, the mark is the turn's, the
\* position is on the grid and its cell is empty
Legal(e, c) ==
    /\ localResult[e] = IN_PROGRESS
    /\ c.mark = localCurrentPlayer[e]
    /\ c.x \in Idx
    /\ c.y \in Idx
    /\ board[e][c.y][c.x] = EMPTY

\* the step leaves the engine of e as it is
EngineKept(e) ==
    /\ board'[e] = board[e]
    /\ localCurrentPlayer'[e] = localCurrentPlayer[e]
    /\ localResult'[e] = localResult[e]

\* a board with this one mark on it
oneMark(x, y, mark) == [resetBoard EXCEPT ![y][x] = mark]

\* C1: over a connection that stays up, whatever the interleaving of the
\* two players' clicks and resets and whatever the latency, once every
\* sent packet has been delivered and both command queues are empty the
\* host and the participant hold the same grid, turn mark and result.
C1_AgreeWhenQuiescent == Quiescent => Agree

\* C2: when the participant has joined and the host's delayed sync has been
\* answered with a GameState packet, while the players click (no reset),
\* then once that packet and every other packet has been delivered and
\* handled the participant's grid, turn mark and result equal the host's.
C2_LateJoinerBaseline ==
    (Established /\ Quiescent /\ resetsLeft = MaxResets) => Agree

\* C3: the logic thread accepts a local PlaceMark (sets a cell and pushes a
\* snapshot) if and only if the result is InProgress, the mark is the
\* expected turn's, (x, y) is on the grid and the cell is Empty; on accept
\* exactly that cell is set to the mark and no other cell changes.
C3_PlaceMarkAcceptedIffLegal ==
    [][\A e \in Endpoints :
          Handles(e, "PLACE_MARK") =>
              LET c == Head(commandInputQueue[e])
              IN  IF Legal(e, c)
                  THEN /\ board'[e] = [board[e] EXCEPT ![c.y][c.x] = c.mark]
                       /\ gameStateQueue'[e] # gameStateQueue[e]
                  ELSE /\ board'[e] = board[e]
                       /\ gameStateQueue'[e] = gameStateQueue[e]]_vars

\* the connected host has accepted X on (1,0) on the empty grid
C3_Accepted ==
    /\ cmd["server"] = PlaceMarkCmd(1, 0, X)
    /\ board["server"] = oneMark(1, 0, X)
    /\ net["client"] = <<PlayerMovePkt(1, 0, X)>>

\* C4: a rejected local PlaceMark (wrong turn, occupied or out-of-range
\* cell, game decided) leaves grid, turn mark and result as they were, sends
\* no packet and pushes no snapshot; the command is consumed and the loop
\* goes on.
C4_RejectedPlaceMarkNoEffect ==
    [][\A e \in Endpoints :
          (Handles(e, "PLACE_MARK") /\ ~Legal(e, Head(commandInputQueue[e]))) =>
              /\ EngineKept(e)
              /\ net' = net
              /\ gameStateQueue' = gameStateQueue
              /\ currentRenderState' = currentRenderState]_vars

\* the host's logic thread has handled nothing but a PlaceMark of O on
\* X's turn, and has left everything as started
C4_Rejected ==
    /\ inputsLeft["server"] = MaxCmds - 1
    /\ cmd["server"] = PlaceMarkCmd(0, 0, O)
    /\ commandInputQueue["server"] = <<>>
    /\ board["server"] = resetBoard
    /\ localCurrentPlayer["server"] = X

\* C5: on each engine the number of X marks minus the number of O marks
\* is 0 or 1 in every reachable state.
C5_MarksAlternate ==
    \A e \in Endpoints :
        countOf(board[e], X) - countOf(board[e], O) \in {0, 1}

\* C6: a cell that is not Empty changes in no step but a reset or the
\* receipt of a full-state sync, which clear it; so no PlaceMark and no
\* NetworkMove changes it.
C6_OccupiedCellKept ==
    [][\A e \in Endpoints : \A x \in Idx : \A y \in Idx :
          (board[e][y][x] # EMPTY /\ board'[e][y][x] # board[e][y][x]) =>
              /\ board'[e][y][x] = EMPTY
              /\ \/ Handles(e, "RESET_GAME")
                 \/ Handles(e, "NETWORK_RESET")
                 \/ ReceivesGameState(e)]_vars

\* the participant's logic thread has handled, on its turn, a PlaceMark of
\* O on the cell that holds the host's X, and the X is still there
C6_OccupiedClicked ==
    /\ cmd["client"] = PlaceMarkCmd(0, 0, O)
    /\ board["client"] = oneMark(0, 0, X)
    /\ localCurrentPlayer["client"] = O
    /\ localResult["client"] = IN_PROGRESS
    /\ commandInputQueue["client"] = <<>>

\* C7: once an engine's result is X_WINS, O_WINS or DRAW, no PlaceMark and
\* no NetworkMove changes its grid, turn mark or result.
C7_DecidedGameKept ==
    [][\A e \in Endpoints :
          (/\ localResult[e] # IN_PROGRESS
           /\ Handles(e, "PLACE_MARK") \/ Handles(e, "NETWORK_MOVE")) =>
              EngineKept(e)]_vars

\* the lines of the grid as sets of positions <<x, y>>
Lines ==
    {{<<x, y>> : x \in Idx} : y \in Idx}
        \cup {{<<x, y>> : y \in Idx} : x \in Idx}
        \cup {{<<i, i>> : i \in Idx}, {<<i, SIZE - 1 - i>> : i \in Idx}}

hasLine(tiles, mark) == \E L \in Lines : \A p \in L : tiles[p[2]][p[1]] = mark

\* the reference rule
referenceResult(tiles) ==
    IF hasLine(tiles, X) THEN X_WINS
    ELSE IF hasLine(tiles, O) THEN O_WINS
    ELSE IF \A p \in Idx \X Idx : tiles[p[2]][p[1]] # EMPTY THEN DRAW
    ELSE IN_PROGRESS

\* C8: on every grid on which at most one player has a complete line,
\* Board::checkWinner gives that player's win if a row, a column or a
\* diagonal holds three equal marks, else Draw if all 9 cells are
\* filled, else InProgress.  (The result the logic thread holds after
\* SYNC_STATE_RECEIVED is checkWinner of the grid the packet brought.)
C8_CheckWinnerIsReference ==
    (/\ cmd["client"].type = "SYNC_STATE_RECEIVED"
     /\ ~(hasLine(board["client"], X) /\ hasLine(board["client"], O))) =>
        localResult["client"] = referenceResult(board["client"])

\* X on (0,0), (0,1), (0,2) and O on (1,1), (2,2): X_WINS
C8_ColumnZero ==
    /\ cmd["client"].type = "SYNC_STATE_RECEIVED"
    /\ board["client"] =
          [y \in Idx |-> [x \in Idx |->
              IF x = 0 THEN X ELSE IF x = y THEN O ELSE EMPTY]]
    /\ localResult["client"] = X_WINS

\* C9: on each engine the result the logic thread holds equals the result
\* computed from its current grid, in every reachable state.
C9_ResultMatchesGrid ==
    \A e \in Endpoints : localResult[e] = checkWinner(board[e])

\* C10: after an accepted PlaceMark or an applied NetworkMove the turn mark
\* is flipped if and only if the recomputed result is InProgress; when the
\* move ends the game the turn mark is left as it was.
C10_TurnFlippedIffInProgress ==
    [][\A e \in Endpoints :
          (/\ Handles(e, "PLACE_MARK") \/ Handles(e, "NETWORK_MOVE")
           /\ board'[e] # board[e]) =>
              /\ (localResult'[e] = IN_PROGRESS) <=>
                    (referenceResult(board'[e]) = IN_PROGRESS)
              /\ localCurrentPlayer'[e] =
                    IF localResult'[e] = IN_PROGRESS
                    THEN (IF localCurrentPlayer[e] = X THEN O ELSE X)
                    ELSE localCurrentPlayer[e]]_vars

\* the connected host's own X on (2,0) has completed row 0: the game is
\* won and the turn mark is still X
C10_WinningMove ==
    /\ cmd["server"] = PlaceMarkCmd(2, 0, X)
    /\ net["client"] = <<PlayerMovePkt(2, 0, X)>>
    /\ board["server"][0] = [x \in Idx |-> X]
    /\ localResult["server"] = X_WINS
    /\ localCurrentPlayer["server"] = X

-----------------------------------------------------------------------------
(* Outgoing packets of the logic thread *)

\* the packets the step appends to the link towards the peer of e
sentBy(e) ==
    IF Len(net'[Peer(e)]) >= Len(net[Peer(e)])
       /\ SubSeq(net'[Peer(e)], 1, Len(net[Peer(e)])) = net[Peer(e)]
    THEN SubSeq(net'[Peer(e)], Len(net[Peer(e)]) + 1, Len(net'[Peer(e)]))
    ELSE <<>>

\* C11: a local move is never committed to an engine's grid without a
\* PlayerMove packet with the same x, y and mark being transmitted to the
\* peer within the handling of that command, whatever the connection
\* state (participant disconnected, host with an empty roster).
C11_LocalMoveSent ==
    [][\A e \in Endpoints :
          (Handles(e, "PLACE_MARK") /\ board'[e] # board[e])
          => LET c == Head(commandInputQueue[e])
             IN  sentBy(e) = <<PlayerMovePkt(c.x, c.y, c.mark)>>]_vars

\* C12: a NetworkMove aimed at an in-range empty cell is applied whatever
\* the turn mark: the cell takes the carried mark, the result is
\* recomputed from the new grid and the turn is flipped if the game is
\* still in progress; aimed at an occupied or out-of-range cell it
\* changes nothing.
C12_NetworkMoveApplied ==
    [][\A e \in Endpoints :
          Handles(e, "NETWORK_MOVE") =>
             LET c == Head(commandInputQueue[e])
             IN  IF c.x \in Idx /\ c.y \in Idx /\ board[e][c.y][c.x] = EMPTY
                 THEN /\ board'[e] = [board[e] EXCEPT ![c.y][c.x] = c.mark]
                      /\ localResult'[e] = checkWinner(board'[e])
                      /\ (localResult'[e] = IN_PROGRESS) <=>
                            (referenceResult(board'[e]) = IN_PROGRESS)
                      /\ localCurrentPlayer'[e] =
                            IF localResult'[e] = IN_PROGRESS
                            THEN otherPlayer(localCurrentPlayer[e])
                            ELSE localCurrentPlayer[e]
                 ELSE EngineKept(e)]_vars

\* the host, whose turn mark was X, has applied the network move X (0,0)
\* and then, the turn mark being O, the network move X (1,0): both cells
\* hold X and the turn has gone back to X
C12_OutOfTurnApplied ==
    /\ cmd["server"] = NetworkMoveCmd(1, 0, X)
    /\ commandInputQueue["server"] = <<>>
    /\ board["server"] = [oneMark(0, 0, X) EXCEPT ![0][1] = X]
    /\ localCurrentPlayer["server"] = X
    /\ localResult["server"] = IN_PROGRESS

\* the command came from the network thread
FromNetwork(c) ==
    \/ c.type = "NETWORK_MOVE"
    \/ c.type = "NETWORK_RESET"
    \/ c.type = "RESET_GAME" /\ c.fromNetwork

\* the cells on which two grids differ
changedCells(tiles, other) ==
    {p \in Idx \X Idx : tiles[p[2]][p[1]] # other[p[2]][p[1]]}

\* the elements of a sequence
Range(seq) == {seq[i] : i \in 1..Len(seq)}

\* no move made by e is on its way back to e, as a packet or as a command
NoEcho(e) ==
    /\ \A pkt \in Range(net[e]) :
          pkt.type = "PLAYER_MOVE" => pkt.mark # myMark(e)
    /\ \A c \in Range(commandInputQueue[e]) :
          c.type = "NETWORK_MOVE" => c.mark # myMark(e)

\* C13: handling a NetworkMove, a NetworkReset or a ResetGame with
\* fromNetwork = true never sends a packet, and no engine is ever handed
\* a move it produced itself, so a locally committed move changes the
\* grid of the engine it came from exactly once (one cell, when the
\* PlaceMark is handled).
C13_NoEcho ==
    /\ [](\A e \in Endpoints : NoEcho(e))
    /\ [][\A e \in Endpoints :
             /\ (/\ commandInputQueue[e] # <<>>
                 /\ FromNetwork(Head(commandInputQueue[e]))
                 /\ commandInputQueue'[e] = Tail(commandInputQueue[e]))
                => net' = net
             /\ (Handles(e, "PLACE_MARK") /\ board'[e] # board[e])
                => LET c == Head(commandInputQueue[e])
                   IN  /\ changedCells(board[e], board'[e]) = {<<c.x, c.y>>}
                       /\ c.mark = myMark(e)]_vars

\* the host's X on (0,0) has been sent, received and applied by the
\* participant, which sent nothing back: both grids hold that one mark
\* and nothing is left on the links or in the queues
C13_MoveMirroredOnce ==
    /\ cmd["server"] = PlaceMarkCmd(0, 0, X)
    /\ cmd["client"] = NetworkMoveCmd(0, 0, X)
    /\ \A e \in Endpoints :
          /\ board[e] = oneMark(0, 0, X)
          /\ net[e] = <<>>
          /\ commandInputQueue[e] = <<>>

\* e has somebody to send to: the host's roster is not empty, the
\* participant is connected
Live(e) == IF isServer(e) THEN clients # {} ELSE connected

\* the step handles a reset command of e and leaves a fresh game
ResetLeavesFreshGame(e) ==
    /\ board'[e] = resetBoard
    /\ localCurrentPlayer'[e] = X
    /\ localResult'[e] = IN_PROGRESS
    /\ net'[e] = net[e]

CarriesStateOf(pkt, e) ==
    /\ pkt.type = "GAME_STATE"
    /\ Len(pkt.board) = SIZE * SIZE
    /\ \A x \in Idx : \A y \in Idx : pkt.board[y * SIZE + x + 1] = board[e][y][x]
    /\ pkt.currentPlayer = localCurrentPlayer[e]
    /\ pkt.result = localResult[e]

C16_SyncReceivedSetsTurn ==
    [][Handles("client", "SYNC_STATE_RECEIVED") =>
          /\ localCurrentPlayer'["client"] = Head(commandInputQueue["client"]).mark
          /\ board'["client"] = board["client"]
          /\ net' = net]_vars

\* the participant's grid holds one X and no O, and a SyncReceived
\* carrying X has been handled: the turn is X although the marks on the
\* grid would make it O's
C16_TurnAgainstCount ==
    /\ cmd["client"] = SyncStateReceivedCmd(X)
    /\ commandInputQueue["client"] = <<>>
    /\ board["client"] = oneMark(0, 0, X)
    /\ localCurrentPlayer["client"] = X

\* every GAME_STATE packet the participant has taken has been applied in
\* full: the network thread's loop is over and the logic thread has
\* handled the SYNC_STATE_RECEIVED
Applied ==
    /\ applying = <<>>
    /\ commandInputQueue["client"] = <<>>
    /\ cmd["client"].type = "SYNC_STATE_RECEIVED"

\* what the host's GAME_STATE packet makes of a participant's engine
AsSynced ==
    /\ board["client"] = board["server"]
    /\ localCurrentPlayer["client"] = localCurrentPlayer["server"]
    /\ localResult["client"] = checkWinner(board["server"])

\* C17: applying the same GameState packet to a participant twice in a
\* row, with no other command in between, leaves the participant with the
\* same grid, turn and result after the second application as after the
\* first, whatever state it started from: each time one application or
\* both are complete the engine is what the packet makes of it.
C17_GameStateIdempotent == (Applied /\ Len(net["client"]) < 2) => AsSynced

\* the participant, which started with X on (2,2), has applied both
\* packets of a host that holds X on (0,0), (1,0) and O on (0,1), (1,1)
C17_AppliedTwice ==
    /\ Applied
    /\ net["client"] = <<>>
    /\ inputsLeft = [e \in Endpoints |-> 0]
    /\ board["server"] = midTiles
    /\ board["client"] = midTiles
    /\ localCurrentPlayer["client"] = O
    /\ localCurrentPlayer["server"] = O
    /\ currentRenderState["client"] = Snapshot(midTiles, O, IN_PROGRESS, "client")

\* the step handles a command of e that changes the grid, the turn or the
\* result: an accepted PlaceMark, an applied NetworkMove, a reset, a
\* SyncReceived
ChangesGame(e) ==
    \/ Handles(e, "PLACE_MARK") /\ board'[e] # board[e]
    \/ Handles(e, "NETWORK_MOVE") /\ board'[e] # board[e]
    \/ Handles(e, "RESET_GAME")
    \/ Handles(e, "NETWORK_RESET")
    \/ Handles(e, "SYNC_STATE_RECEIVED")

\* the engine state of e right after the step, as a snapshot
snapshotAfter(e) ==
    [boardState |-> board'[e],
     currentPlayer |-> localCurrentPlayer'[e],
     result |-> localResult'[e],
     isMyTurn |-> (localCurrentPlayer'[e] = myMark(e))]

\* C18: every command that changes the grid, the turn or the result
\* pushes exactly one Snapshot, equal to the engine's state right after
\* the command, with isMyTurn = (turn = own mark); the Snapshot pushed
\* last is the current render state.  A command that changes nothing
\* (a rejected PlaceMark, a NetworkMove that fails, a SyncRequest) pushes
\* none.
C18_OneSnapshotPerChange ==
    [][\A e \in Endpoints :
          /\ ChangesGame(e) =>
                /\ gameStateQueue'[e] = Append(gameStateQueue[e], snapshotAfter(e))
                /\ currentRenderState'[e] = snapshotAfter(e)
          /\ (/\ commandInputQueue[e] # <<>>
              /\ commandInputQueue'[e] = Tail(commandInputQueue[e])
              /\ ~ChangesGame(e)) =>
                /\ gameStateQueue'[e] = gameStateQueue[e]
                /\ currentRenderState'[e] = currentRenderState[e]]_vars

\* the participant has applied the network move X (0,0): one snapshot of
\* its new state, on which the turn is its own, is queued and is the
\* current render state
C18_SnapshotPushed ==
    LET snapshot == [boardState |-> oneMark(0, 0, X), currentPlayer |-> O,
                     result |-> IN_PROGRESS, isMyTurn |-> TRUE]
    IN  /\ cmd["client"] = NetworkMoveCmd(0, 0, X)
        /\ board["client"] = oneMark(0, 0, X)
        /\ localCurrentPlayer["client"] = O
        /\ gameStateQueue["client"] = <<snapshot>>
        /\ currentRenderState["client"] = snapshot

\* the step is the logic thread of e handling a command
LogicStep(e) ==
    /\ commandInputQueue[e] # <<>>
    /\ commandInputQueue'[e] = Tail(commandInputQueue[e])
    /\ cmd'[e] = Head(commandInputQueue[e])

\* C19: only the logic thread ever writes the grid: every step that
\* changes an endpoint's grid is its logic thread handling a command; the
\* network and render threads never call setTile or resetBoard, the
\* receipt of a GameState packet included.
C19_OnlyLogicWritesGrid ==
    [][\A e \in Endpoints : board'[e] # board[e] => LogicStep(e)]_vars

\* C20: the host's roster never holds more than two peers, for any
\* interleaving of the Connecting, Connected and closed / failed events
\* of several connections.
C20_RosterAtMostTwo == Cardinality(clients) <= MaxClients


\* the states of a connection that its peer closed or that failed
closures == {"ClosedByPeer", "ProblemDetectedLocally"}

\* the step is an iteration of the host's network thread that runs callbacks
HostTicked == statusChanged # <<>> /\ statusChanged' = <<>>

\* the host's session is up: stop flag clear, both threads running, board and
\* transport allocated
HostUp(run, logic, network, alloc) ==
    /\ run["server"]
    /\ logic["server"] = "running"
    /\ network["server"] = "running"
    /\ alloc["server"]

\* the roster as the callback of the i-th queued status change finds it
rosterBefore(i) ==
    runCallbacks(SubSeq(statusChanged, 1, i - 1),
                 [clients |-> clients, m_eState |-> m_eState]).clients

\* C21: when a peer's connection is closed by the peer or fails, the host's
\* callback removes its entry of the roster and the host's session goes on
\* (stop flag clear, both threads running, grid as it was), and a connection
\* attempt whose callback finds fewer than two entries in the roster is
\* accepted.
C21_ClosedPeerRemoved ==
    [][HostTicked =>
        /\ \A i \in DOMAIN statusChanged :
              statusChanged[i].m_eState \in closures
                  => statusChanged[i].m_hConn \notin clients'
        /\ HostUp(running, logicThread, networkThread, allocated)
              => /\ HostUp(running', logicThread', networkThread', allocated')
                 /\ board'["server"] = board["server"]
        /\ \A i \in DOMAIN statusChanged :
              LET h == statusChanged[i].m_hConn
              IN  (/\ statusChanged[i].m_eState = "Connecting"
                   /\ m_eState[h] = "Connecting"
                   /\ Cardinality(rosterBefore(i)) < MaxClients)
                      => m_eState'[h] = "FindingRoute"]_vars

\* a peer that had joined and been sent the state is gone from the roster,
\* the session is up, and another peer has joined since
C21_PeerReplaced ==
    /\ HostUp(running, logicThread, networkThread, allocated)
    /\ \E h, later \in Conns :
          /\ h \in sent /\ h \notin clients /\ m_eState[h] \in closures
          /\ later \in clients /\ later \notin sent

\* the host has run every callback and every delayed sync it started has
\* been enqueued and handled
HostQuiescent ==
    /\ statusChanged = <<>>
    /\ syncThreads = 0
    /\ commandInputQueue["server"] = <<>>

\* C22: every peer that joins the host's roster is sent a GameState packet
\* through a SyncRequest command enqueued for its join, also when a peer
\* leaves and another joins between two iterations of the network thread:
\* once the host has nothing left to run, every peer of the roster has been
\* sent one.
C22_JoinedPeerSynced == HostQuiescent => clients \subseteq sent

\* the disconnect notifications among the messages of the host
notices(messages) ==
    Cardinality({i \in DOMAIN messages : messages[i] = "Player disconnected!"})

\* the callbacks of the queued status changes that take the last peer off
\* the roster
drops == {i \in DOMAIN statusChanged :
             rosterBefore(i) # {} /\ rosterBefore(i + 1) = {}}

TornDown ==
    /\ ~running["client"]
    /\ logicThread["client"] = "none"
    /\ networkThread["client"] = "none"
    /\ ~allocated["client"]
    /\ gameState["client"] = "MAIN_MENU"

\* the network thread of the participant's session has seen the connection
\* go (hasShownDisconnect is a local of the thread's function)
LossSeen == networkThread["client"] # "none" /\ hasShownDisconnect["client"]

Disconnected ==
    /\ m_eState[hConn] \in closures
    /\ \/ connected
       \/ \E i \in DOMAIN pendingCallbacks["client"] :
             pendingCallbacks["client"][i] = "Connected"

C25_RestoredNotTornDown ==
    \A i \in DOMAIN stopGames :
        (stopGames[i].by = "timeout" /\ stopGames[i].pc = "flag")
            => ~(connected /\ wasConnected)

\* C26: for each disconnect the participant's network thread sees, at most
\* one timeout thread is started, and stopGame is called at most once on the
\* session of that disconnect.
C26_OneStopPerEpisode ==
    \A t \in DOMAIN timeouts :
        /\ Cardinality({u \in DOMAIN timeouts :
                           timeouts[u].session = timeouts[t].session}) <= 1
        /\ Cardinality({i \in DOMAIN stopGames :
                           stopGames[i].session = timeouts[t].session}) <= 1

\* C27: a timeout thread started in one session of the participant never
\* acts on another session: every call of stopGame by a timeout thread is
\* made in the session the thread was started in.
C27_TimeoutKeepsToSession ==
    \A i \in DOMAIN stopGames :
        stopGames[i].by = "timeout" => stopGames[i].session = stopGames[i].from

\* C28: stopGame releases transport and board only after both threads have
\* been joined, so in no reachable state does the logic loop or the network
\* loop of the participant go on iterating (thread running, stop flag
\* clear) while its board and transport are released.
C28_NoLoopAfterRelease ==
    (/\ running["client"]
     /\ logicThread["client"] = "running" \/ networkThread["client"] = "running")
        => allocated["client"]

\* the call of stopGame is waiting in one of its joins
Joining(i) ==
    /\ i \in DOMAIN stopGames
    /\ stopGames[i].pc \in {"logicJoin", "networkJoin"}

Returned(i) == i \in DOMAIN stopGames /\ stopGames[i].pc = "done"

StartFails(e) ==
    /\ inputsLeft'[e] = inputsLeft[e] - 1
    /\ session' = session

\* C30: when the transport fails to start (the host's listen socket, the
\* participant's connection), startGame returns false: neither thread is
\* started, the flag running is left as it was, no timeout thread and no
\* stopGame is started, and the program stays at its main menu, its main
\* thread where it was, in the frame loop.
C30_FailedStartStaysIdle ==
    [][\A e \in Endpoints :
          StartFails(e) =>
              /\ logicThread' = logicThread
              /\ networkThread' = networkThread
              /\ running' = running
              /\ gameState[e] = "MAIN_MENU"
              /\ gameState' = gameState
              /\ mainThread' = mainThread
              /\ timeouts' = timeouts
              /\ stopGames' = stopGames]_vars

\* both programs have failed to start their transport: each has its message,
\* is at its main menu with the flag clear and without threads
C30_BothFailed ==
    \A e \in Endpoints :
        /\ messageQueue[e] # <<>>
        /\ messageQueue[e][Len(messageQueue[e])]
              = (IF isServer(e) THEN "Failed to start server!"
                 ELSE "Failed to connect to server!")
        /\ gameState[e] = "MAIN_MENU"
        /\ ~running[e]
        /\ logicThread[e] = "none"
        /\ networkThread[e] = "none"

\* a click of the render thread on tile (x, y) that passes every test of
\* Game::handleMouseClick
Clicked(e, x, y) ==
    /\ inputsLeft'[e] = inputsLeft[e] - 1
    /\ commandInputQueue'[e] = Append(commandInputQueue[e], PlaceMarkCmd(x, y, myMark(e)))

\* C37: Board::getTile returns the mark stored on every tile of the grid, so
\* the render thread's occupied-cell test lets no PLACE_MARK through for a tile
\* that holds a mark.
C37_OccupiedCellNotEnqueued ==
    [][\A e \in Endpoints : \A x \in Idx : \A y \in Idx :
          /\ getTile(board[e], x, y) = board[e][y][x]
          /\ Clicked(e, x, y) => board[e][y][x] = EMPTY]_vars

\* C38: every PLACE_MARK the render thread enqueues and every PLAYER_MOVE
\* packet an endpoint sends carries the endpoint's own mark (X on the host, O
\* on the participant), and a local move that is committed puts that mark, never
\* the peer's and never EMPTY, on the grid.
C38_LocalMovesCarryOwnMark ==
    [][\A e \in Endpoints :
          /\ \A c \in Range(commandInputQueue'[e]) :
                c.type = "PLACE_MARK" => c.mark = myMark(e)
          /\ \A pkt \in Range(net'[Peer(e)]) :
                pkt.type = "PLAYER_MOVE" => pkt.mark = myMark(e)
          /\ (Handles(e, "PLACE_MARK") /\ board'[e] # board[e])
             => LET c == Head(commandInputQueue[e])
                IN  /\ board'[e][c.y][c.x] = myMark(e)
                    /\ myMark(e) \in Marks
                    /\ myMark(e) # myMark(Peer(e))]_vars

\* the participant has committed its click on (0,1) with O, and the packet
\* with that mark is on its way to the host
C38_ParticipantMovedO ==
    /\ cmd["client"] = PlaceMarkCmd(0, 1, O)
    /\ board["client"][1][0] = O
    /\ PlayerMovePkt(0, 1, O) \in Range(net["server"])

\* the command came from the render thread
FromPresentation(c) ==
    \/ c.type = "PLACE_MARK"
    \/ c.type = "RESET_GAME" /\ ~c.fromNetwork

\* C32: when a command of the render thread and a command of the network
\* thread wait in an endpoint's command queue next to each other, the engine
\* that handling the two leaves (grid, turn mark, result) is the same
\* whichever of the two the logic thread handles first.
C32_OrderIndependent ==
    \A e \in Endpoints :
        LET queue == commandInputQueue[e]
        IN  (/\ Len(queue) >= 2
             /\ \/ FromPresentation(queue[1]) /\ FromNetwork(queue[2])
                \/ FromNetwork(queue[1]) /\ FromPresentation(queue[2]))
            => handled(handled(engineOf(e), queue[1]), queue[2])
                  = handled(handled(engineOf(e), queue[2]), queue[1])

\* the step is the network thread of e receiving a PLAYER_MOVE packet
ReceivesMove(e) ==
    /\ net[e] # <<>>
    /\ Head(net[e]).type = "PLAYER_MOVE"
    /\ net'[e] = Tail(net[e])

\* C36: over a connection that stays up and with every loop running, every
\* move committed on one endpoint is in the end applied to the peer's grid, at
\* the same cell with the same mark: whatever is in flight or queued is in the
\* end received and handled, the peer's network thread turns the packet into a
\* NETWORK_MOVE with the packet's cell and mark, and the peer's logic thread,
\* handling it, puts that mark on that cell.
C36_CommittedMoveApplied ==
    /\ ~Quiescent ~> Quiescent
    /\ [][\A e \in Endpoints :
             /\ ReceivesMove(e)
                => LET pkt == Head(net[e])
                   IN  commandInputQueue'[e] =
                          Append(commandInputQueue[e],
                                 NetworkMoveCmd(pkt.x, pkt.y, pkt.mark))
             /\ Handles(e, "NETWORK_MOVE")
                => LET c == Head(commandInputQueue[e])
                   IN  board'[e][c.y][c.x] = c.mark]_vars

-----------------------------------------------------------------------------
(* The wire *)

\* processMessage of e takes a text off the wire
ReadsText(e, text) ==
    /\ wire[e] # <<>>
    /\ wire'[e] = Tail(wire[e])
    /\ Head(wire[e]) = text

\* C35: for every packet of the three kinds with valid fields, what
\* NetworkPacket::deserialize makes of the text NetworkPacket::serialize wrote
\* is a packet of the same type with the same data: processMessage puts
\* that very packet on incomingPackets
C35_RoundTrip ==
    [][\A e \in Endpoints :
          wire'[e] # wire[e] =>
              \A sending \in Sendings :
                  ReadsText(e, sending.text) =>
                      /\ deserialize(sending.text).exception = "none"
                      /\ deserialize(sending.text).packet = sending.packet
                      /\ incomingPackets'[e] = Append(incomingPackets[e], sending.packet)]_vars

\* the participant has read the GAME_STATE packet of a game in its fifth move
C35_GameStateRead ==
    /\ wire["client"] = <<>>
    /\ incomingPackets["client"] =
          <<networkPacketOf(GameStatePkt(midTiles, O, IN_PROGRESS))>>

\* the message that has arrived is a text of which NetworkPacket::deserialize
\* makes no packet
FailsToDeserialize(e) ==
    /\ wire[e] # <<>>
    /\ deserialize(Head(wire[e])).exception # "none"

\* C31: an inbound message that fails to deserialize is dropped: the step
\* that takes it off the socket puts no packet on incomingPackets and leaves
\* the command queues, the engines, the connection and the threads as they are
C31_MalformedDropped ==
    [][\A e \in Endpoints :
          (FailsToDeserialize(e) /\ wire'[e] = Tail(wire[e])) =>
              /\ incomingPackets' = incomingPackets
              /\ UNCHANGED <<commandInputQueue, engineVars, connected, clients,
                             running, uncaught>>]_vars

-----------------------------------------------------------------------------
(* The hand-off of the render state *)

\* the engine of e has nothing left to handle and its snapshots have been
\* consumed: no packet waits for its network thread, no command for its logic
\* thread, no snapshot is queued and no assignment of one is under way
Settled(e) ==
    /\ net[e] = <<>>
    /\ commandInputQueue[e] = <<>>
    /\ ~isServer(e) => applying = <<>>
    /\ gameStateQueue[e] = <<>>
    /\ \A t \in Threads : copying[e][t] = <<>>

\* C33: the main thread drains gameStateQueue and keeps the snapshot it
\* dequeued last; once the engine has stopped producing snapshots and the
\* queue is drained, currentRenderState holds the engine's turn mark,
\* result, isMyTurn and grid, not those of an older snapshot
C33_LatestWins ==
    \A e \in Endpoints :
        Settled(e) =>
            currentRenderState[e] =
                Snapshot(board[e], localCurrentPlayer[e], localResult[e], e)

\* the threads of e that are assigning to currentRenderState
assigning(e) == {t \in Threads : copying[e][t] # <<>>}

\* C34: currentRenderState is handed off safely: no state is reachable in
\* which a thread assigns to it while another thread assigns to it too
C34_SafeHandOff ==
    \A e \in Endpoints : Cardinality(assigning(e)) <= 1

\* C39: a session starts with empty channels: at the step of startGame that
\* starts the loops and enters the game, the participant's command queue and
\* snapshot queue hold nothing of an earlier session
C39_ChannelsEmptyAtStart ==
    [][(gameState["client"] = "MAIN_MENU" /\ gameState'["client"] = "IN_GAME") =>
          /\ commandInputQueue'["client"] = <<>>
          /\ gameStateQueue'["client"] = <<>>]_vars

\* another thread than the one of call i of stopGame is using the session:
\* the main thread is inside Board::render, or inside a call of stopGame of
\* its own
UsedBesides(i) ==
    \/ mainThread = "render"
    \/ \E j \in DOMAIN stopGames \ {i} :
          stopGames[j].by = "main" /\ stopGames[j].pc # "done"

\* C40: teardown has the session to itself: when the call of stopGame made by
\* a timeout thread has joined the loops and released the Grid and the
\* transport, no other thread is drawing the Grid or running a stopGame of its
\* own
C40_TeardownExclusive ==
    \A i \in DOMAIN stopGames :
        (stopGames[i].by = "timeout" /\ stopGames[i].pc = "menu") => ~UsedBesides(i)

=============================================================================
